---- MODULE Spec2Model ----
(***************************************************************************)
(* Model of the CBS linter (src/src/cbsLinter.ts), of the command registry *)
(* lookup it uses (cbsData, src/unnamed/part_001) and of the formatter     *)
(* (src/src/cbsFormatter.ts).                                              *)
(*                                                                         *)
(* A document text is a TLA+ string; TLC evaluates Len, SubSeq and \o on   *)
(* strings, so the checkers are written over characters exactly as the     *)
(* TypeScript is: offsets are 0-based as in the source, and every helper   *)
(* below that stands for a JavaScript string method converts at its edge.  *)
(***************************************************************************)
EXTENDS Integers, Sequences, FiniteSets, TLC

VARIABLES
    documents,             \* the host's documents by uri: getText(), languageId, isClosed
    diagnosticCollection,  \* the collection's entry for each uri
    debounceTimer,         \* the linter's one timer handle
    regexLastIndex,        \* the lastIndex of the three module-level regexes
    registry,              \* the command table loaded at startup
    passes,                \* what the last lint pass of each document computed
    formatting,            \* the loop of formatDocumentWithMapping over a document
    progress,              \* where a lint pass taken one loop turn at a time stands
    turn,                  \* flips at every turn of a loop of that pass
    previewContextMap,     \* extension.ts: the context of each preview uri
    originalToPreviewMap,  \* extension.ts: for each original uri, its Set of preview uris
    previewSets,           \* the Set objects that map has held, each with its members
    updatePreviewDebounceTimer,  \* extension.ts: the one timer of the preview updates
    previewsShown          \* how many preview uris the command has made so far

\* the state of the formatted previews
previewVars ==
    <<previewContextMap, originalToPreviewMap, previewSets, updatePreviewDebounceTimer,
      previewsShown>>

vars ==
    <<documents, diagnosticCollection, debounceTimer, regexLastIndex, registry, passes,
      formatting, progress, turn, previewVars>>

(***************************************************************************)
(* JavaScript string primitives                                            *)
(***************************************************************************)
Min(a, b) == IF a < b THEN a ELSE b
Max(a, b) == IF a > b THEN a ELSE b
Clamp(i, n) == IF i < 0 THEN 0 ELSE IF i > n THEN n ELSE i

\* s.substring(a, b): both ends clamped to [0, length], swapped when a > b
Substring(s, a, b) ==
    SubSeq(s, Clamp(Min(a, b), Len(s)) + 1, Clamp(Max(a, b), Len(s)))

\* s.substring(a)
SubstringFrom(s, a) == Substring(s, a, Len(s))

\* s[i], "" standing for undefined
CharAt(s, i) == IF i < 0 \/ i >= Len(s) THEN "" ELSE SubSeq(s, i + 1, i + 1)

\* s.substring(i, i + 2): the two-character window every scanner reads
Two(s, i) == Substring(s, i, i + 2)

\* s.startsWith(p)
StartsWith(s, p) == Len(p) <= Len(s) /\ SubSeq(s, 1, Len(p)) = p

\* s.endsWith(p)
EndsWith(s, p) == Len(p) <= Len(s) /\ SubSeq(s, Len(s) - Len(p) + 1, Len(s)) = p

\* the least element of a non-empty set of integers
Least(S) == CHOOSE x \in S : \A y \in S : x <= y

\* s.indexOf(p, from): the first offset >= from where p occurs, -1 when there is none
IndexOf(s, p, from) ==
    LET f    == IF from < 0 THEN 0 ELSE IF from > Len(s) THEN Len(s) ELSE from
        n    == Len(p)
        last == Len(s) - n
    IN  IF \E i \in f..last : SubSeq(s, i + 1, i + n) = p
        THEN CHOOSE i \in f..last :
                 /\ SubSeq(s, i + 1, i + n) = p
                 /\ \A j \in f..(i - 1) : SubSeq(s, j + 1, j + n) # p
        ELSE -1

\* s.includes(p)
Includes(s, p) == IndexOf(s, p, 0) # -1

\* the last offset <= from where p occurs, -1 when there is none
LastIndexOfFrom(s, p, from) ==
    LET n    == Len(p)
        last == IF from < Len(s) - n THEN from ELSE Len(s) - n
    IN  IF \E i \in 0..last : SubSeq(s, i + 1, i + n) = p
        THEN CHOOSE i \in 0..last :
                 /\ SubSeq(s, i + 1, i + n) = p
                 /\ \A j \in (i + 1)..last : SubSeq(s, j + 1, j + n) # p
        ELSE -1

\* s.lastIndexOf(p)
LastIndexOf(s, p) == LastIndexOfFrom(s, p, Len(s) - Len(p))

\* the characters \s matches and trim() strips, among those a text may hold
WhiteSpace == {" ", "\n", "\t"}

\* s.trim()
Trim(s) ==
    LET n     == Len(s)
        solid(i) == SubSeq(s, i, i) \notin WhiteSpace
    IN  IF \A i \in 1..n : ~solid(i) THEN ""
        ELSE SubSeq(s,
                    CHOOSE i \in 1..n : solid(i) /\ \A j \in 1..(i - 1) : ~solid(j),
                    CHOOSE i \in 1..n : solid(i) /\ \A j \in (i + 1)..n : ~solid(j))

\* s.slice(2, -2)
Slice2(s) == IF Len(s) < 4 THEN "" ELSE Substring(s, 2, Len(s) - 2)

RECURSIVE Join(_, _)
\* pieces.join(separator)
Join(pieces, separator) ==
    IF pieces = <<>> THEN ""
    ELSE IF Len(pieces) = 1 THEN pieces[1]
    ELSE Head(pieces) \o separator \o Join(Tail(pieces), separator)

UpperAlphabet == "ABCDEFGHIJKLMNOPQRSTUVWXYZ"
LowerAlphabet == "abcdefghijklmnopqrstuvwxyz"
Digits == "0123456789"

CharsOf(s) == {SubSeq(s, i, i) : i \in 1..Len(s)}

UpperChars == CharsOf(UpperAlphabet)

LowerChar(c) ==
    IF c \in UpperChars
    THEN CharAt(LowerAlphabet, IndexOf(UpperAlphabet, c, 0))
    ELSE c

RECURSIVE ToLowerFrom(_, _)
ToLowerFrom(s, i) ==
    IF i >= Len(s) THEN "" ELSE LowerChar(CharAt(s, i)) \o ToLowerFrom(s, i + 1)

\* s.toLowerCase()
ToLowerCase(s) ==
    IF \A i \in 1..Len(s) : SubSeq(s, i, i) \notin UpperChars THEN s ELSE ToLowerFrom(s, 0)

\* `${n}` for the small numbers a message holds
RECURSIVE NumToString(_)
NumToString(n) ==
    IF n < 10 THEN CharAt(Digits, n)
    ELSE NumToString(n \div 10) \o CharAt(Digits, n % 10)

\* [a-zA-Z0-9_]
NameChars == CharsOf(LowerAlphabet) \cup CharsOf(UpperAlphabet) \cup CharsOf(Digits) \cup {"_"}

\* [\w-]
BlockNameChars == NameChars \cup {"-"}

\* end of the longest run of characters of `class` that starts at i (a greedy [..]+ or [..]*)
RunEnd(s, i, class) ==
    CHOOSE j \in i..Len(s) :
        /\ j = Len(s) \/ CharAt(s, j) \notin class
        /\ \A k \in i..(j - 1) : CharAt(s, k) \in class

\* the number of offsets in [i, to) that hold the character c
CountFrom(s, c, i, to) == Cardinality({k \in (i + 1)..to : SubSeq(s, k, k) = c})

\* (s.match(/\n/g) || []).length
CountNewlines(s) == CountFrom(s, "\n", 0, Len(s))

\* the first offset >= i that holds {{, }} or, when wanted, the separator, -1 when
\* there is none: where a scanner that reads s.substring(i, i + 2), or the separator,
\* and otherwise steps by one character does something next
NextBraceOr(s, separator, wanted, i) ==
    LET n == Len(s)
        m == Len(separator)
        stop(j) == \/ /\ j + 2 <= n
                      /\ SubSeq(s, j + 1, j + 2) \in {"{{", "}}"}
                   \/ /\ wanted
                      /\ j + m <= n
                      /\ SubSeq(s, j + 1, j + m) = separator
    IN  IF \E j \in i..(n - 1) : stop(j)
        THEN CHOOSE j \in i..(n - 1) : stop(j) /\ \A k \in i..(j - 1) : ~stop(k)
        ELSE -1

\* the offset of the next {{ or }} at or after i, -1 when there is none
NextBrace(s, i) == NextBraceOr(s, "", FALSE, i)

(***************************************************************************)
(* vscode.Position, vscode.Range, vscode.Diagnostic                        *)
(***************************************************************************)
Position(line, character) == [line |-> line, character |-> character]

Range(startPos, endPos) == [start |-> startPos, end |-> endPos]

Diagnostic(range, message, severity) ==
    [range |-> range, message |-> message, severity |-> severity]

\* document.positionAt(offset): the offset is clamped to the text, the line is the
\* number of line breaks before it and the character the distance from the last one
PositionAt(doc, offset) ==
    LET o == IF offset < 0 THEN 0 ELSE IF offset > Len(doc) THEN Len(doc) ELSE offset
    IN  Position(CountFrom(doc, "\n", 0, o), o - (LastIndexOfFrom(doc, "\n", o - 1) + 1))

OffsetRange(doc, from, to) == Range(PositionAt(doc, from), PositionAt(doc, to))

(***************************************************************************)
(* checkBlockMismatch                                                      *)
(***************************************************************************)
RECURSIVE FindTagEnd(_, _, _)
\* the inner while loop: from endIndex with braceCount open pairs to the index just
\* after the matching }}, or to the end of the text when there is none (the steps over
\* characters that start no {{ or }} are taken at once)
FindTagEnd(doc, endIndex, braceCount) ==
    LET j == NextBrace(doc, endIndex)
    IN  IF ~(endIndex < Len(doc) /\ braceCount > 0) THEN endIndex
        ELSE IF j = -1 THEN Len(doc)
        ELSE IF Two(doc, j) = "{{" THEN FindTagEnd(doc, j + 2, braceCount + 1)
        ELSE IF braceCount - 1 = 0 THEN j + 2
        ELSE FindTagEnd(doc, j + 2, braceCount - 1)

\* the range computed for the tag doc[index, endIndex) from the running line counters
BlockTagRange(fullTag, index, line, lineStart) ==
    LET startLine == line
        startChar == index - lineStart
        endLine   == line + CountNewlines(fullTag)
        endChar   == IF endLine = startLine THEN startChar + Len(fullTag)
                     ELSE Len(fullTag) - LastIndexOf(fullTag, "\n") - 1
    IN  Range(Position(startLine, startChar), Position(endLine, endChar))

\* tagContent.match(/^#([\w-]+)/): the captured name, "" when there is no match
BlockNameOf(tagContent) ==
    IF StartsWith(tagContent, "#")
    THEN Substring(tagContent, 1, RunEnd(tagContent, 1, BlockNameChars))
    ELSE ""

UnexpectedClosingTag(fullTag, range) ==
    Diagnostic(range,
               "Unexpected closing tag '" \o Trim(fullTag) \o "'. No matching opening tag found.",
               "Error")

UnclosedBlockTag(frame) ==
    Diagnostic(frame.range,
               "Unclosed block tag '{{#" \o frame.name \o "}}' on line "
                   \o NumToString(frame.line + 1) \o ". No matching closing tag found.",
               "Error")

\* the frame of an event that pops nothing
NoFrame == [name |-> "", range |-> Range(Position(0, 0), Position(0, 0)), line |-> 0]

\* the line start once the characters doc[index, open) are stepped over
LineStartAt(doc, index, open, lineStart) ==
    LET lastNl == LastIndexOfFrom(doc, "\n", open - 1)
    IN  IF lastNl >= index THEN lastNl + 1 ELSE lineStart

\* what the loop body computes for the tag fullTag = doc[index, endIndex)
BlockTagOf(fullTag, index, endIndex, line, lineStart) ==
    [fullTag |-> fullTag,
     tagContent |-> Trim(Substring(fullTag, 2, Len(fullTag) - 2)),
     range |-> BlockTagRange(fullTag, index, line, lineStart),
     offset |-> index, end |-> endIndex, line |-> line, lineStart |-> lineStart]

BlockTag(doc, index, endIndex, line, lineStart) ==
    BlockTagOf(Substring(doc, index, endIndex), index, endIndex, line, lineStart)

\* the tag at the next {{, at offset `open`: the characters doc[index, open) before it
\* are stepped over one by one, each line break among them counted
BlockTagAt(doc, index, open, line, lineStart) ==
    BlockTag(doc, open, FindTagEnd(doc, open + 2, 1),
             line + CountFrom(doc, "\n", index, open),
             LineStartAt(doc, index, open, lineStart))

RECURSIVE BlockScan(_, _, _, _, _, _, _)
RECURSIVE BlockScanTag(_, _, _, _, _)
RECURSIVE BlockScanTagClosingAll(_, _, _, _, _)
\* the push or pop for one tag when a closer closes every open block at once
BlockScanTagClosingAll(doc, tag, blockStack, diagnostics, events) ==
    LET frame == [name |-> BlockNameOf(tag.tagContent), range |-> tag.range,
                  line |-> tag.line]
        ev(kind, fr) ==
            [kind |-> kind, frame |-> fr, offset |-> tag.offset, end |-> tag.end,
             range |-> tag.range, line |-> tag.line, depthBefore |-> Len(blockStack)]
    IN  IF StartsWith(tag.tagContent, "#") /\ frame.name # ""
        THEN BlockScan(doc, tag.end, tag.line, tag.lineStart, Append(blockStack, frame),
                       diagnostics, Append(events, ev("push", frame)))
        ELSE IF StartsWith(tag.tagContent, "/") /\ blockStack = <<>>
        THEN BlockScan(doc, tag.end, tag.line, tag.lineStart, blockStack,
                       Append(diagnostics, UnexpectedClosingTag(tag.fullTag, tag.range)),
                       Append(events, ev("popEmpty", NoFrame)))
        ELSE IF StartsWith(tag.tagContent, "/")
        THEN BlockScan(doc, tag.end, tag.line, tag.lineStart, <<>>, diagnostics,
                       Append(events, ev("pop", blockStack[Len(blockStack)])))
        ELSE BlockScan(doc, tag.end, tag.line, tag.lineStart, blockStack, diagnostics,
                       events)

\* the push or pop for one tag, then the rest of the scan; `events` records each push
\* ("push"), each pop ("pop") and each closer met on an empty stack ("popEmpty") with
\* the tag that caused it and the frame pushed or popped
BlockScanTag(doc, tag, blockStack, diagnostics, events) ==
    LET frame == [name |-> BlockNameOf(tag.tagContent), range |-> tag.range,
                  line |-> tag.line]
        ev(kind, fr) ==
            [kind |-> kind, frame |-> fr, offset |-> tag.offset, end |-> tag.end,
             range |-> tag.range, line |-> tag.line, depthBefore |-> Len(blockStack)]
    IN  IF StartsWith(tag.tagContent, "#") THEN
            IF frame.name # ""
            THEN BlockScan(doc, tag.end, tag.line, tag.lineStart, Append(blockStack, frame),
                           diagnostics, Append(events, ev("push", frame)))
            ELSE BlockScan(doc, tag.end, tag.line, tag.lineStart, blockStack, diagnostics,
                           events)
        ELSE IF StartsWith(tag.tagContent, "/") THEN
            IF blockStack = <<>>
            THEN BlockScan(doc, tag.end, tag.line, tag.lineStart, blockStack,
                           Append(diagnostics, UnexpectedClosingTag(tag.fullTag, tag.range)),
                           Append(events, ev("popEmpty", NoFrame)))
            ELSE BlockScan(doc, tag.end, tag.line, tag.lineStart,
                           SubSeq(blockStack, 1, Len(blockStack) - 1), diagnostics,
                           Append(events, ev("pop", blockStack[Len(blockStack)])))
        ELSE BlockScan(doc, tag.end, tag.line, tag.lineStart, blockStack, diagnostics,
                       events)

\* the outer while loop, from one {{ to the next
BlockScan(doc, index, line, lineStart, blockStack, diagnostics, events) ==
    IF ~(index < Len(doc)) \/ IndexOf(doc, "{{", index) = -1
    THEN [blockStack |-> blockStack, diagnostics |-> diagnostics, events |-> events]
    ELSE BlockScanTag(doc, BlockTagAt(doc, index, IndexOf(doc, "{{", index), line, lineStart),
                      blockStack, diagnostics, events)

\* the name a closing tag carries after its `/`, "" for a bare {{/}}
ClosingName(doc, event) ==
    Trim(SubstringFrom(Trim(Substring(doc, event.offset + 2, event.end - 2)), 1))

\* does the event pop a frame with a closer that names another block
NamesAnotherBlock(doc, event) ==
    /\ event.kind = "pop"
    /\ ClosingName(doc, event) # ""
    /\ ClosingName(doc, event) # event.frame.name

\* the two Errors of a name check on a pop: one at the closer, one at the opener
NameMismatch(doc, event) ==
    LET fullTag == Substring(doc, event.offset, event.end)
        opening == "'{{#" \o event.frame.name \o "}}'"
    IN  <<Diagnostic(event.range,
                     "Closing tag '" \o fullTag \o "' does not match opening tag " \o opening
                       \o " on line " \o NumToString(event.frame.line + 1) \o ".",
                     "Error"),
          Diagnostic(event.frame.range,
                     "Opening tag " \o opening \o " mismatch with closing tag '" \o fullTag
                       \o "' on line " \o NumToString(event.line + 1) \o ".",
                     "Error")>>

RECURSIVE NameMismatches(_, _, _)
NameMismatches(doc, events, k) ==
    IF k > Len(events) THEN <<>>
    ELSE (IF NamesAnotherBlock(doc, events[k]) THEN NameMismatch(doc, events[k]) ELSE <<>>)
         \o NameMismatches(doc, events, k + 1)

\* the scan's result with one diagnostic more per frame left on the stack
WithUnclosedBlockTags(scan, diagnostics) ==
    [diagnostics |-> diagnostics
                       \o [k \in 1..Len(scan.blockStack) |->
                             UnclosedBlockTag(scan.blockStack[k])],
     blockStack  |-> scan.blockStack,
     events      |-> scan.events]

WithNameMismatches(doc, scan) ==
    WithUnclosedBlockTags(scan, scan.diagnostics \o NameMismatches(doc, scan.events, 1))

\* checkBlockMismatch with a name check on each pop
checkBlockMismatchByName(doc) ==
    WithNameMismatches(doc, BlockScan(doc, 0, 0, 0, <<>>, <<>>, <<>>))

BlockScanResult(scan) == WithUnclosedBlockTags(scan, scan.diagnostics)

\* checkBlockMismatch(document): the scan, then one diagnostic per frame left on the stack
checkBlockMismatch(doc) == BlockScanResult(BlockScan(doc, 0, 0, 0, <<>>, <<>>, <<>>))

(***************************************************************************)
(* checkGeneralSyntax                                                      *)
(***************************************************************************)
\* /\s:\s/.test(content)
HasSpacedColon(content) ==
    \E i \in 0..(Len(content) - 3) :
        /\ CharAt(content, i) \in WhiteSpace
        /\ CharAt(content, i + 1) = ":"
        /\ CharAt(content, i + 2) \in WhiteSpace

UnexpectedClosingBraces(doc, closeBracePos) ==
    Diagnostic(OffsetRange(doc, closeBracePos, closeBracePos + 2),
               "Unexpected closing braces '}}'.", "Error")

UnclosedOpeningBraces(doc, pos) ==
    Diagnostic(OffsetRange(doc, pos, pos + 2), "Unclosed opening braces '{{'.", "Error")

\* the check of the content of the tag just closed
ContentDiagnostics(content, range) ==
    IF content = ""
    THEN <<Diagnostic(range, "Empty CBS tag '{{}}'.", "Warning")>>
    ELSE IF HasSpacedColon(content) /\ ~StartsWith(content, "?")
    THEN <<Diagnostic(range, "Invalid separator ' : ' found. Use '::' instead.", "Error")>>
    ELSE <<>>

\* the diagnostics for the tag just closed without the test for ` : `
ClosedTagEmptyOnly(doc, openStart, closeBracePos) ==
    IF Trim(Substring(doc, openStart + 2, closeBracePos)) = ""
    THEN <<Diagnostic(OffsetRange(doc, openStart, closeBracePos + 2),
                      "Empty CBS tag '{{}}'.", "Warning")>>
    ELSE <<>>

\* the diagnostics for the tag just closed, doc[openStart, closeBracePos + 2)
ClosedTagDiagnostics(doc, openStart, closeBracePos) ==
    ContentDiagnostics(Trim(Substring(doc, openStart + 2, closeBracePos)),
                       OffsetRange(doc, openStart, closeBracePos + 2))

RECURSIVE SyntaxScanUntilStray(_, _, _, _)
\* the scan with a `break` after the first }} met on an empty stack
SyntaxScanUntilStray(doc, i, openBraceStack, diagnostics) ==
    IF ~(i < Len(doc))
    THEN [openBraceStack |-> openBraceStack, diagnostics |-> diagnostics]
    ELSE
      LET openBracePos  == IndexOf(doc, "{{", i)
          closeBracePos == IndexOf(doc, "}}", i)
      IN  IF openBracePos = -1 /\ closeBracePos = -1
          THEN [openBraceStack |-> openBraceStack, diagnostics |-> diagnostics]
          ELSE IF openBracePos # -1 /\ (closeBracePos = -1 \/ openBracePos < closeBracePos)
          THEN SyntaxScanUntilStray(doc, openBracePos + 2,
                                    Append(openBraceStack, openBracePos), diagnostics)
          ELSE IF openBraceStack = <<>>
          THEN [openBraceStack |-> openBraceStack,
                diagnostics |-> Append(diagnostics,
                                       UnexpectedClosingBraces(doc, closeBracePos))]
          ELSE SyntaxScanUntilStray(doc, closeBracePos + 2,
                                    SubSeq(openBraceStack, 1, Len(openBraceStack) - 1),
                                    diagnostics \o ClosedTagDiagnostics(
                                        doc, openBraceStack[Len(openBraceStack)],
                                        closeBracePos))

RECURSIVE SyntaxScan(_, _, _, _)
\* the while loop; openBraceStack holds the offsets of the {{ still open
SyntaxScan(doc, i, openBraceStack, diagnostics) ==
    IF ~(i < Len(doc))
    THEN [openBraceStack |-> openBraceStack, diagnostics |-> diagnostics]
    ELSE
      LET openBracePos  == IndexOf(doc, "{{", i)
          closeBracePos == IndexOf(doc, "}}", i)
      IN  IF openBracePos = -1 /\ closeBracePos = -1
          THEN [openBraceStack |-> openBraceStack, diagnostics |-> diagnostics]
          ELSE IF openBracePos # -1 /\ (closeBracePos = -1 \/ openBracePos < closeBracePos)
          THEN SyntaxScan(doc, openBracePos + 2, Append(openBraceStack, openBracePos),
                          diagnostics)
          ELSE IF openBraceStack = <<>>
          THEN SyntaxScan(doc, closeBracePos + 2, openBraceStack,
                          Append(diagnostics, UnexpectedClosingBraces(doc, closeBracePos)))
          ELSE SyntaxScan(doc, closeBracePos + 2,
                          SubSeq(openBraceStack, 1, Len(openBraceStack) - 1),
                          diagnostics \o ClosedTagDiagnostics(
                              doc, openBraceStack[Len(openBraceStack)], closeBracePos))

\* the scan's diagnostics, then one per {{ left on the stack
WithUnclosedBraces(doc, scan) ==
    scan.diagnostics
      \o [k \in 1..Len(scan.openBraceStack) |->
            UnclosedOpeningBraces(doc, scan.openBraceStack[k])]

\* checkGeneralSyntax(document)
checkGeneralSyntax(doc) == WithUnclosedBraces(doc, SyntaxScan(doc, 0, <<>>, <<>>))

(***************************************************************************)
(* The command registry (cbsData)                                          *)
(***************************************************************************)
\* a registry entry without a `deprecated` marker
NotDeprecated == [present |-> FALSE, message |-> "", replacement |-> ""]

\* one CbsCommandInfo literal of cbsCommandsData; no entry of the table carries a
\* `deprecated` marker
CommandInfo(name, aliases, signatureLabel, parameters, isPrefixCommand) ==
    [name |-> name, aliases |-> aliases, signatureLabel |-> signatureLabel,
     parameters |-> parameters, isPrefixCommand |-> isPrefixCommand,
     deprecated |-> NotDeprecated]

\* cbsCommandsData, in the table's order: the entries a checked document can name
\* (every entry with a one-character name or alias among the characters of the
\* documents, and the commands the documents are built from).  Lookup is by equality
\* of whole names, so the entries left out match no command name of a checked document.
cbsCommandsData ==
    <<
        CommandInfo("user", {}, "user",
                    <<>>, FALSE),
        CommandInfo("char", {"bot"}, "char",
                    <<>>, FALSE),
        CommandInfo("history", {"messages"}, "history::[role]",
                    <<"role">>, FALSE),
        CommandInfo("datetimeformat", {"date_time_format"}, "datetimeformat::A::[B]",
                    <<"A (format string)", "B (timestamp)">>, FALSE),
        CommandInfo("?", {"calc"}, "? A",
                    <<"A (expression)">>, TRUE),
        CommandInfo("min", {}, "min::A::[B...]",
                    <<"A (value or array)", "B... (optional values)">>, FALSE),
        CommandInfo("getvar", {}, "getvar::A",
                    <<"A (variable name)">>, FALSE),
        CommandInfo("setvar", {}, "setvar::A::B",
                    <<"A (variable name)", "B (value)">>, FALSE),
        CommandInfo("settempvar", {}, "settempvar::A::B",
                    <<"A (variable name)", "B (value)">>, FALSE),
        CommandInfo("gettempvar", {"tempvar"}, "gettempvar::A",
                    <<"A (variable name)">>, FALSE),
        CommandInfo("getglobalvar", {}, "getglobalvar::A",
                    <<"A (variable name)">>, FALSE),
        CommandInfo("array", {"makearray", "a", "make_array"}, "array::A::[B...]",
                    <<"A (element)", "B... (optional elements)">>, FALSE),
        CommandInfo("dict", {"object", "o", "d", "makedict", "make_dict", "makeobject", "make_object"}, "dict::key1=value1::[key2=value2...]",
                    <<"key=value pairs">>, FALSE),
        CommandInfo("slot", {}, "slot",
                    <<>>, FALSE),
        CommandInfo("slot", {}, "slot::A",
                    <<"A (item variable name from #each)">>, FALSE),
        CommandInfo("random", {}, "random",
                    <<>>, FALSE),
        CommandInfo("random", {}, "random:A,[B...]",
                    <<"A, B... (values)">>, TRUE),
        CommandInfo("roll", {}, "roll:A",
                    <<"A (max value or dX)">>, TRUE),
        CommandInfo("replace", {}, "replace::A::B::C",
                    <<"A (text)", "B (search)", "C (replace)">>, FALSE),
        CommandInfo("risu", {}, "risu::[A]",
                    <<"A (size in px, optional)">>, FALSE),
        CommandInfo("calc", {}, "calc::A",
                    <<"A (expression)">>, FALSE),
        CommandInfo("metadata", {}, "metadata::A::[B]",
                    <<"A (metadata key)", "B (subkey, optional)">>, FALSE),
        CommandInfo("dec", {"displayescapedcolon", ":"}, "dec",
                    <<>>, FALSE),
        CommandInfo("reverse", {}, "reverse:A",
                    <<"A (string)">>, TRUE),
        CommandInfo("datetimeformat", {}, "datetimeformat:A",
                    <<"A (format string)">>, TRUE),
        CommandInfo("call", {}, "call::A::[B...]",
                    <<"A (function name)", "B... (arguments)">>, FALSE)
    >>

\* a registry entry that carries a `deprecated` marker {message, replacement}; an
\* empty replacement stands for a marker without one
DeprecatedCommandInfo(name, aliases, signatureLabel, parameters, message, replacement) ==
    [name |-> name, aliases |-> aliases, signatureLabel |-> signatureLabel,
     parameters |-> parameters, isPrefixCommand |-> FALSE,
     deprecated |-> [present |-> TRUE, message |-> message, replacement |-> replacement]]

\* signatures with a `deprecated` marker, as the registry may hold them: a command with
\* an alias and a replacement, a name with one plain and one deprecated overload, a
\* name with two deprecated overloads, and a block
DeprecatedSignatures ==
    <<
        DeprecatedCommandInfo("legacy", {"older"}, "legacy::A", <<"A">>,
                              "No longer supported.", "user"),
        CommandInfo("mixed", {}, "mixed", <<>>, FALSE),
        DeprecatedCommandInfo("mixed", {}, "mixed::A", <<"A">>, "Old form.", ""),
        DeprecatedCommandInfo("twice", {}, "twice", <<>>, "First marker.", "char"),
        DeprecatedCommandInfo("twice", {}, "twice::A", <<"A">>, "Second marker.", ""),
        DeprecatedCommandInfo("#old", {}, "#old condition", <<"condition">>,
                              "Blocks of this kind are obsolete.", "#if")
    >>

\* findAllCommandInfo(commandIdentifier)
findAllCommandInfo(commandIdentifier) ==
    LET lowerCommandIdentifier == ToLowerCase(commandIdentifier)
        matches(cmd) ==
            \/ ToLowerCase(cmd.name) = lowerCommandIdentifier
            \/ /\ ~cmd.isPrefixCommand
               /\ \E alias \in cmd.aliases : ToLowerCase(alias) = lowerCommandIdentifier
            \/ /\ cmd.isPrefixCommand
               /\ lowerCommandIdentifier = ToLowerCase(cmd.name)
    IN  SelectSeq(registry, matches)

(***************************************************************************)
(* lintRecursive and its helpers                                           *)
(***************************************************************************)
RECURSIVE TopLevelSeparatorFrom(_, _, _, _)
\* the for loop of findTopLevelSeparator from i on: at a stop {{ and }} are tested first
TopLevelSeparatorFrom(s, separator, i, braceLevel) ==
    LET j == NextBraceOr(s, separator, braceLevel = 0, i)
    IN  IF j = -1 THEN -1
        ELSE IF Two(s, j) = "{{" THEN TopLevelSeparatorFrom(s, separator, j + 2, braceLevel + 1)
        ELSE IF Two(s, j) = "}}" THEN TopLevelSeparatorFrom(s, separator, j + 2, braceLevel - 1)
        ELSE j

\* findTopLevelSeparator(text, separator)
findTopLevelSeparator(s, separator) == TopLevelSeparatorFrom(s, separator, 0, 0)

RECURSIVE SplitFrom(_, _, _, _, _)
\* the for loop of splitCbsParamsSmart from i on
SplitFrom(paramString, i, braceLevel, currentParamStartIndex, params) ==
    LET j == NextBraceOr(paramString, "::", braceLevel = 0, i)
    IN  IF j = -1
        THEN Append(params, SubstringFrom(paramString, currentParamStartIndex))
        ELSE IF Two(paramString, j) = "{{"
        THEN SplitFrom(paramString, j + 2, braceLevel + 1, currentParamStartIndex, params)
        ELSE IF Two(paramString, j) = "}}"
        THEN SplitFrom(paramString, j + 2, braceLevel - 1, currentParamStartIndex, params)
        ELSE SplitFrom(paramString, j + 2, braceLevel, j + 2,
                       Append(params, Substring(paramString, currentParamStartIndex, j)))

\* splitCbsParamsSmart with every parameter trimmed
splitCbsParamsTrimmed(paramString) ==
    IF Trim(paramString) = "" THEN <<>>
    ELSE LET params == SplitFrom(paramString, 0, 0, 0, <<>>)
         IN  [k \in 1..Len(params) |-> Trim(params[k])]

\* splitCbsParamsSmart(paramString)
splitCbsParamsSmart(paramString) ==
    IF Trim(paramString) = "" THEN <<>> ELSE SplitFrom(paramString, 0, 0, 0, <<>>)

ParsedTag(commandName, paramsString, paramsArray, isBlockTag, isPrefixCommand) ==
    [commandName |-> commandName, paramsString |-> paramsString,
     paramsArray |-> paramsArray, isBlockTag |-> isBlockTag,
     isPrefixCommand |-> isPrefixCommand]

\* a decomposed tag whose parameters splitCbsParamsSmart splits
SplitTag(commandName, paramsString, isBlockTag) ==
    ParsedTag(commandName, paramsString, splitCbsParamsSmart(paramsString), isBlockTag, FALSE)

\* the decomposition, given the offsets of the first top-level `::`, of the first
\* top-level `:` and of the first space
DecomposeAt(tagContent, doubleSeparatorIdx, prefixSeparatorIdx, firstSpaceIdx) ==
    IF StartsWith(tagContent, "#") THEN
        IF doubleSeparatorIdx # -1
        THEN SplitTag(Substring(tagContent, 0, doubleSeparatorIdx),
                      SubstringFrom(tagContent, doubleSeparatorIdx + 2), TRUE)
        ELSE IF firstSpaceIdx # -1
        THEN SplitTag(Substring(tagContent, 0, firstSpaceIdx),
                      SubstringFrom(tagContent, firstSpaceIdx + 1), TRUE)
        ELSE SplitTag(tagContent, "", TRUE)
    ELSE IF doubleSeparatorIdx # -1
    THEN SplitTag(Substring(tagContent, 0, doubleSeparatorIdx),
                  SubstringFrom(tagContent, doubleSeparatorIdx + 2), FALSE)
    ELSE IF prefixSeparatorIdx # -1
    THEN ParsedTag(Substring(tagContent, 0, prefixSeparatorIdx),
                   SubstringFrom(tagContent, prefixSeparatorIdx + 1),
                   <<SubstringFrom(tagContent, prefixSeparatorIdx + 1)>>, FALSE, TRUE)
    ELSE ParsedTag(tagContent, "", <<>>, FALSE, FALSE)

\* the decomposition with the single `:` looked for before the `::`
DecomposePrefixFirst(tagContent) ==
    DecomposeAt(tagContent,
                IF findTopLevelSeparator(tagContent, ":") # -1 THEN -1
                ELSE findTopLevelSeparator(tagContent, "::"),
                findTopLevelSeparator(tagContent, ":"), IndexOf(tagContent, " ", 0))

\* the decomposition of a tag's trimmed content into name and raw parameters
Decompose(tagContent) ==
    DecomposeAt(tagContent, findTopLevelSeparator(tagContent, "::"),
                findTopLevelSeparator(tagContent, ":"), IndexOf(tagContent, " ", 0))

\* the parameter labels lintRecursive counts as required
IsRequiredLabel(label) ==
    ~Includes(label, "optional") /\ ~StartsWith(label, "[") /\ ~EndsWith(label, "?]")

\* the count of required parameters when every parameter counts as optional
requiredParamsNone(commandInfo) == 0

requiredParams(commandInfo) ==
    Len(SelectSeq(commandInfo.parameters, IsRequiredLabel))

totalExpectedParams(commandInfo) == Len(commandInfo.parameters)

allowsVariableParams(commandInfo) == Includes(commandInfo.signatureLabel, "...")

\* the isValidUsage test with the count held to the number of the parameter specs
AcceptsExactCount(commandInfo, numParamsProvided, isPrefixCommand) ==
    \/ isPrefixCommand /\ commandInfo.isPrefixCommand
    \/ numParamsProvided = totalExpectedParams(commandInfo)

\* one turn of the isValidUsage loop: does this signature accept the usage
AcceptsUsage(commandInfo, numParamsProvided, isPrefixCommand) ==
    \/ isPrefixCommand /\ commandInfo.isPrefixCommand
    \/ IF allowsVariableParams(commandInfo)
       THEN numParamsProvided >= requiredParams(commandInfo)
       ELSE /\ numParamsProvided >= requiredParams(commandInfo)
            /\ numParamsProvided <= totalExpectedParams(commandInfo)

RECURSIVE JoinSignatures(_, _)
\* commandInfos.map(ci => `{{${ci.signatureLabel}}}`).join(' or ')
JoinSignatures(commandInfos, k) ==
    IF k > Len(commandInfos) THEN ""
    ELSE "{{" \o commandInfos[k].signatureLabel \o "}}"
         \o (IF k < Len(commandInfos) THEN " or " ELSE "")
         \o JoinSignatures(commandInfos, k + 1)

\* the deprecation loop without its `break`: one warning for every deprecated signature
DeprecationDiagnosticsOfEvery(commandInfos, what, commandName, rangeForThisTag) ==
    LET dep == SelectSeq(commandInfos, LAMBDA ci : ci.deprecated.present)
    IN  [k \in 1..Len(dep) |->
            Diagnostic(rangeForThisTag,
                what \o " '" \o commandName \o "' is deprecated. " \o dep[k].deprecated.message
                  \o (IF dep[k].deprecated.replacement # ""
                      THEN " Use '" \o dep[k].deprecated.replacement \o "' instead."
                      ELSE ""),
                "Warning")]

\* the first deprecation warning of the loop over commandInfos, if any
DeprecationDiagnostics(commandInfos, what, commandName, rangeForThisTag) ==
    LET dep == SelectSeq(commandInfos, LAMBDA ci : ci.deprecated.present)
    IN  IF dep = <<>> THEN <<>>
        ELSE LET d == dep[1].deprecated
             IN  <<Diagnostic(rangeForThisTag,
                     what \o " '" \o commandName \o "' is deprecated. " \o d.message
                       \o (IF d.replacement # ""
                           THEN " Use '" \o d.replacement \o "' instead." ELSE ""),
                     "Warning")>>

AlwaysAcceptedCommands == {"setvar", "settempvar", "getvar", "gettempvar", "getglobalvar"}

\* the validation with the test `!isBlockTag` left out: a block header is looked up as
\* a command is
ValidateCommandOfAnyTag(parsed, rangeForThisTag) ==
    LET commandInfos == findAllCommandInfo(parsed.commandName)
    IN  IF commandInfos = <<>> /\ parsed.commandName \notin AlwaysAcceptedCommands
        THEN <<Diagnostic(rangeForThisTag,
                          "Unknown command '" \o parsed.commandName \o "'.", "Error")>>
        ELSE <<>>

\* the validation of one decomposed tag against the signatures its name matches
ValidateAgainst(parsed, rangeForThisTag, commandInfos) ==
    IF parsed.isBlockTag
    THEN DeprecationDiagnostics(commandInfos, "Block", parsed.commandName, rangeForThisTag)
    ELSE IF commandInfos = <<>>
    THEN IF parsed.commandName \notin AlwaysAcceptedCommands
         THEN <<Diagnostic(rangeForThisTag,
                           "Unknown command '" \o parsed.commandName \o "'.", "Error")>>
         ELSE <<>>
    ELSE DeprecationDiagnostics(commandInfos, "Command", parsed.commandName,
                                rangeForThisTag)
         \o (IF \E k \in 1..Len(commandInfos) :
                   AcceptsUsage(commandInfos[k], Len(parsed.paramsArray),
                                parsed.isPrefixCommand)
             THEN <<>>
             ELSE <<Diagnostic(rangeForThisTag,
                      "Incorrect parameter count for command '" \o parsed.commandName
                        \o "'. Provided " \o NumToString(Len(parsed.paramsArray))
                        \o " parameter(s). Valid signature(s): "
                        \o JoinSignatures(commandInfos, 1),
                      "Error")>>)

\* the command and parameter-count validation of one decomposed tag
ValidateCommand(parsed, rangeForThisTag) ==
    ValidateAgainst(parsed, rangeForThisTag, findAllCommandInfo(parsed.commandName))

MAX_RECURSION_DEPTH == 10

\* what lintRecursive did with one tag: "excessive", "skipped" (empty, closer or ?-tag),
\* "else" or "parsed" (decomposed and validated)
LintCall(tag, offset, range, depth, outcome, parsed) ==
    [tag |-> tag, offset |-> offset, range |-> range, depth |-> depth,
     outcome |-> outcome, parsed |-> parsed]

NoParsedTag == ParsedTag("", "", <<>>, FALSE, FALSE)

ExcessiveNesting(rangeForThisTag, currentDepth) ==
    Diagnostic(rangeForThisTag,
               "Excessive tag nesting depth (" \o NumToString(currentDepth)
                 \o "). Linting stopped for this branch.", "Warning")

\* no diagnostic and no call
NoLint == [diagnostics |-> <<>>, calls |-> <<>>]

\* the diagnostics and the calls of one call after those of another
Merge(first, second) ==
    [diagnostics |-> first.diagnostics \o second.diagnostics,
     calls |-> first.calls \o second.calls]

\* the offset of paramsString in the tag, the end of the content when it is empty
ParamsStart(tagContentWithBraces, tagContent, paramsString) ==
    IF paramsString # "" /\ IndexOf(tagContent, paramsString, 0) # -1
    THEN IndexOf(tagContentWithBraces, tagContent, 0) + IndexOf(tagContent, paramsString, 0)
    ELSE IndexOf(tagContentWithBraces, tagContent, 0) + Len(tagContent)

RECURSIVE lintRecursive(_, _, _, _, _)
RECURSIVE LintParams(_, _, _, _, _, _, _, _)

\* the recursive call for one parameter, made when the trimmed parameter is a tag
LintParam(paramToRecurseOn, doc, absoluteStartOffsetOfParam, length, currentDepth) ==
    IF /\ StartsWith(paramToRecurseOn, "{{")
       /\ EndsWith(paramToRecurseOn, "}}")
       /\ Trim(Slice2(paramToRecurseOn)) # ""
    THEN lintRecursive(paramToRecurseOn, doc,
                       OffsetRange(doc, absoluteStartOffsetOfParam,
                                   absoluteStartOffsetOfParam + length),
                       absoluteStartOffsetOfParam, currentDepth + 1)
    ELSE NoLint

\* one turn of the loop over paramsArray, for the parameter found at
\* paramActualStartInParamsString, then the turns after it
LintParamAt(parsed, doc, parentDocumentOffsetForTag, paramsStringActualStartOffsetInFullTag, currentDepth, i, paramActualStartInParamsString, acc) ==
    IF paramActualStartInParamsString = -1 THEN acc
    ELSE LintParams(parsed, doc, parentDocumentOffsetForTag,
                    paramsStringActualStartOffsetInFullTag, currentDepth, i + 1,
                    paramActualStartInParamsString + Len(parsed.paramsArray[i]),
                    Merge(acc,
                          LintParam(Trim(parsed.paramsArray[i]), doc,
                                    parentDocumentOffsetForTag
                                      + paramsStringActualStartOffsetInFullTag
                                      + paramActualStartInParamsString,
                                    Len(parsed.paramsArray[i]), currentDepth)))

\* the loop over paramsArray from index i on: the diagnostics and calls of the
\* recursive calls it makes
LintParams(parsed, doc, parentDocumentOffsetForTag, paramsStringActualStartOffsetInFullTag, currentDepth, i, currentSearchOffsetInParamsString, acc) ==
    IF i > Len(parsed.paramsArray) THEN acc
    ELSE LintParamAt(parsed, doc, parentDocumentOffsetForTag,
                     paramsStringActualStartOffsetInFullTag, currentDepth, i,
                     IndexOf(parsed.paramsString, parsed.paramsArray[i],
                             currentSearchOffsetInParamsString),
                     acc)

\* the validation of a decomposed tag, with no descent into the parameters when the
\* validation reports an Error
LintParsedStoppingAtError(tagContentWithBraces, tagContent, parsed, doc, rangeForThisTag, parentDocumentOffsetForTag, currentDepth) ==
    LintParams(parsed, doc, parentDocumentOffsetForTag,
               ParamsStart(tagContentWithBraces, tagContent, parsed.paramsString),
               currentDepth,
               IF \E n \in 1..Len(ValidateCommand(parsed, rangeForThisTag)) :
                      ValidateCommand(parsed, rangeForThisTag)[n].severity = "Error"
               THEN Len(parsed.paramsArray) + 1 ELSE 1,
               0,
               [diagnostics |-> ValidateCommand(parsed, rangeForThisTag),
                calls |-> <<LintCall(tagContentWithBraces, parentDocumentOffsetForTag,
                                     rangeForThisTag, currentDepth, "parsed", parsed)>>])

\* the validation of a decomposed tag and the descent into its parameters
LintParsed(tagContentWithBraces, tagContent, parsed, doc, rangeForThisTag, parentDocumentOffsetForTag, currentDepth) ==
    LintParams(parsed, doc, parentDocumentOffsetForTag,
               ParamsStart(tagContentWithBraces, tagContent, parsed.paramsString),
               currentDepth, 1, 0,
               [diagnostics |-> ValidateCommand(parsed, rangeForThisTag),
                calls |-> <<LintCall(tagContentWithBraces, parentDocumentOffsetForTag,
                                     rangeForThisTag, currentDepth, "parsed", parsed)>>])

\* the tags lintRecursive skips, and the decomposition of the others
LintContent(tagContentWithBraces, tagContent, doc, rangeForThisTag, parentDocumentOffsetForTag, currentDepth) ==
    IF tagContent = "" \/ StartsWith(tagContent, "/") \/ StartsWith(tagContent, "?")
    THEN [diagnostics |-> <<>>,
          calls |-> <<LintCall(tagContentWithBraces, parentDocumentOffsetForTag,
                               rangeForThisTag, currentDepth, "skipped", NoParsedTag)>>]
    ELSE IF tagContent = ":else"
    THEN [diagnostics |-> <<>>,
          calls |-> <<LintCall(tagContentWithBraces, parentDocumentOffsetForTag,
                               rangeForThisTag, currentDepth, "else", NoParsedTag)>>]
    ELSE LintParsed(tagContentWithBraces, tagContent, Decompose(tagContent), doc,
                    rangeForThisTag, parentDocumentOffsetForTag, currentDepth)

\* lintRecursive after its depth guard
LintTag(tagContentWithBraces, doc, rangeForThisTag, parentDocumentOffsetForTag, currentDepth) ==
    LintContent(tagContentWithBraces, Trim(Slice2(tagContentWithBraces)), doc,
                rangeForThisTag, parentDocumentOffsetForTag, currentDepth)

\* lintRecursive with the guard `currentDepth >= MAX_RECURSION_DEPTH`
lintRecursiveGuardAtLimit(tagContentWithBraces, doc, rangeForThisTag, parentDocumentOffsetForTag, currentDepth) ==
    IF currentDepth >= MAX_RECURSION_DEPTH
    THEN [diagnostics |-> <<ExcessiveNesting(rangeForThisTag, currentDepth)>>,
          calls |-> <<LintCall(tagContentWithBraces, parentDocumentOffsetForTag,
                               rangeForThisTag, currentDepth, "excessive", NoParsedTag)>>]
    ELSE LintTag(tagContentWithBraces, doc, rangeForThisTag, parentDocumentOffsetForTag,
                 currentDepth)

\* lintRecursive(tagContentWithBraces, document, rangeForThisTag,
\*               parentDocumentOffsetForTag, currentDepth)
lintRecursive(tagContentWithBraces, doc, rangeForThisTag, parentDocumentOffsetForTag, currentDepth) ==
    IF currentDepth > MAX_RECURSION_DEPTH
    THEN [diagnostics |-> <<ExcessiveNesting(rangeForThisTag, currentDepth)>>,
          calls |-> <<LintCall(tagContentWithBraces, parentDocumentOffsetForTag,
                               rangeForThisTag, currentDepth, "excessive", NoParsedTag)>>]
    ELSE LintTag(tagContentWithBraces, doc, rangeForThisTag, parentDocumentOffsetForTag,
                 currentDepth)

(***************************************************************************)
(* checkCommandUsage                                                       *)
(***************************************************************************)
RECURSIVE SpansClosedAtAnyLevel(_, _, _, _, _)
\* the scan with the test `braceLevel === 0` left out: a tag is taken to end at the
\* first }} after its {{
SpansClosedAtAnyLevel(doc, i, braceLevel, currentTagStartIndex, spans) ==
    LET j == NextBrace(doc, i)
    IN  IF j = -1 THEN spans
        ELSE IF Two(doc, j) = "{{"
        THEN SpansClosedAtAnyLevel(doc, j + 2, braceLevel + 1,
                                   IF braceLevel = 0 THEN j ELSE currentTagStartIndex, spans)
        ELSE IF braceLevel > 0 /\ currentTagStartIndex # -1
        THEN SpansClosedAtAnyLevel(doc, j + 2, braceLevel - 1, -1,
                                   Append(spans,
                                          [start |-> currentTagStartIndex, end |-> j + 2]))
        ELSE SpansClosedAtAnyLevel(doc, j + 2,
                                   IF braceLevel > 0 THEN braceLevel - 1 ELSE braceLevel,
                                   currentTagStartIndex, spans)

RECURSIVE TopLevelSpans(_, _, _, _, _)
\* the for loop, from one {{ or }} to the next: the top-level tags it finds complete, in
\* order, each as the offsets [start, end) it hands to lintRecursive
TopLevelSpans(doc, i, braceLevel, currentTagStartIndex, spans) ==
    LET j == NextBrace(doc, i)
    IN  IF j = -1 THEN spans
        ELSE IF Two(doc, j) = "{{"
        THEN TopLevelSpans(doc, j + 2, braceLevel + 1,
                           IF braceLevel = 0 THEN j ELSE currentTagStartIndex, spans)
        ELSE IF braceLevel > 0 /\ braceLevel - 1 = 0 /\ currentTagStartIndex # -1
        THEN TopLevelSpans(doc, j + 2, 0, -1,
                           Append(spans, [start |-> currentTagStartIndex, end |-> j + 2]))
        ELSE TopLevelSpans(doc, j + 2, IF braceLevel > 0 THEN braceLevel - 1 ELSE braceLevel,
                           currentTagStartIndex, spans)

\* the initial call of lintRecursive for one top-level span
LintSpan(doc, span) ==
    lintRecursive(Substring(doc, span.start, span.end), doc,
                  OffsetRange(doc, span.start, span.end), span.start, 0)

RECURSIVE LintSpans(_, _, _)
LintSpans(doc, spans, k) ==
    IF k > Len(spans) THEN NoLint
    ELSE Merge(LintSpan(doc, spans[k]), LintSpans(doc, spans, k + 1))

\* what the scan found and what lintRecursive made of it
CommandUsage(spans, linted) ==
    [diagnostics |-> linted.diagnostics, spans |-> spans, calls |-> linted.calls]

LintTopLevel(doc, spans) == CommandUsage(spans, LintSpans(doc, spans, 1))

\* checkCommandUsage(document): lintRecursive is pure, so the tags the scan finds are
\* linted here in the order the scan finds them
checkCommandUsage(doc) == LintTopLevel(doc, TopLevelSpans(doc, 0, 0, -1, <<>>))

(***************************************************************************)
(* parseDocumentForVariables and checkVariableUsage                        *)
(***************************************************************************)
\* a RegExpExecArray, or NoMatch for null: the offset of the match, the offset just
\* after it and capture group 1
RegexMatch(index, end, name) == [found |-> TRUE, index |-> index, end |-> end, name |-> name]

NoMatch == [found |-> FALSE, index |-> -1, end |-> -1, name |-> ""]

\* the offset just after `{{` and one of the keywords (letters in either case, the i
\* flag) and `::` when the text reads so at p, -1 otherwise
HeaderEnd(doc, p, keywords) ==
    LET ends == {p + 2 + Len(k) + 2 : k \in
                   {k \in keywords :
                      /\ p + 2 + Len(k) + 2 <= Len(doc)
                      /\ Substring(doc, p + 2 + Len(k), p + 2 + Len(k) + 2) = "::"
                      /\ ToLowerCase(Substring(doc, p + 2, p + 2 + Len(k))) = k}}
    IN  IF Two(doc, p) # "{{" \/ ends = {} THEN -1 ELSE Least(ends)

\* the match at p once the header is known to end at h: the name is the whole run of
\* name characters from h on, which the closer must follow
NameMatch(doc, p, h, closer) ==
    LET e == RunEnd(doc, h, NameChars)
    IN  IF h # -1 /\ e > h /\ Substring(doc, e, e + 2) = closer /\ e + 2 <= Len(doc)
        THEN RegexMatch(p, e + 2, Substring(doc, h, e))
        ELSE NoMatch

\* the match of `{{(?:keywords)::([a-zA-Z0-9_]+)` followed by `closer` that starts at p
NameTagMatchAt(doc, p, keywords, closer) ==
    NameMatch(doc, p, HeaderEnd(doc, p, keywords), closer)

\* varDefinitionRegex = /\{\{(?:setvar|settempvar)::([a-zA-Z0-9_]+)::/gi at p
varDefinitionRegex(doc, p) == NameTagMatchAt(doc, p, {"setvar", "settempvar"}, "::")

\* varReferenceGetRegex = /\{\{(?:getvar|gettempvar|getglobalvar)::([a-zA-Z0-9_]+)\}\}/gi at p
varReferenceGetRegex(doc, p) ==
    NameTagMatchAt(doc, p, {"getvar", "gettempvar", "getglobalvar"}, "}}")

\* the end of the line that holds offset i: `.` matches every character but a line break
LineEnd(doc, i) ==
    LET nl == IndexOf(doc, "\n", i)
    IN  IF nl = -1 THEN Len(doc) ELSE nl

\* the offsets d of the line where the first `.*?` can stop: a `$` that a name
\* character follows, with a `}}` on the line after the name
DollarStops(doc, h, eol) ==
    {d \in h..(eol - 1) :
        /\ CharAt(doc, d) = "$"
        /\ CharAt(doc, d + 1) \in NameChars
        /\ IndexOf(Substring(doc, 0, eol), "}}", RunEnd(doc, d + 1, NameChars)) # -1}

\* the match at p that takes the first of the stops
DollarMatch(doc, p, eol, d, e) ==
    RegexMatch(p, IndexOf(Substring(doc, 0, eol), "}}", e) + 2, Substring(doc, d + 1, e))

DollarMatchFrom(doc, p, eol, d) == DollarMatch(doc, p, eol, d, RunEnd(doc, d + 1, NameChars))

DollarMatchAmong(doc, p, eol, stops) ==
    IF stops = {} THEN NoMatch ELSE DollarMatchFrom(doc, p, eol, Least(stops))

DollarMatchOnLine(doc, p, h, eol) == DollarMatchAmong(doc, p, eol, DollarStops(doc, h, eol))

DollarMatchAfter(doc, p, h) ==
    IF h = -1 THEN NoMatch ELSE DollarMatchOnLine(doc, p, h, LineEnd(doc, h))

\* varReferenceDollarRegex = /\{\{(?:\?|calc)::.*?\$([a-zA-Z0-9_]+).*?\}\}/gi at p: the
\* first `.*?` stops at the first `$` of the line that a name character follows, the
\* name is the run of name characters after it, the second `.*?` stops at the first
\* `}}` of the line after the name
varReferenceDollarRegex(doc, p) == DollarMatchAfter(doc, p, HeaderEnd(doc, p, {"?", "calc"}))

\* the match of one of the three regexes at p
MatchAt(regex, doc, p) ==
    IF regex = "varDefinitionRegex" THEN varDefinitionRegex(doc, p)
    ELSE IF regex = "varReferenceGetRegex" THEN varReferenceGetRegex(doc, p)
    ELSE varReferenceDollarRegex(doc, p)

\* the leftmost of the matches found, NoMatch when none is
Leftmost(matches) ==
    IF \A m \in matches : ~m.found THEN NoMatch
    ELSE CHOOSE m \in matches : m.found /\ \A o \in matches : o.found => m.index <= o.index

\* regex.exec(text) with the g flag: the leftmost match that starts at lastIndex or later
Exec(regex, doc, lastIndex) ==
    Leftmost({MatchAt(regex, doc, p) : p \in lastIndex..Len(doc)})

VariableLocation(name, range, isDefinition) ==
    [name |-> name, range |-> range, isDefinition |-> isDefinition]

\* the location pushed for a match whose name stands prefixLength into it
LocationAt(doc, match, prefixLength, isDefinition) ==
    IF prefixLength = -1 THEN <<>>
    ELSE <<VariableLocation(
             match.name,
             OffsetRange(doc, match.index + prefixLength,
                         match.index + prefixLength + Len(match.name)),
             isDefinition)>>

\* match[0].indexOf(varName, match[0].indexOf('::') + 2)
PrefixLength(matchText, varName) ==
    IndexOf(matchText, varName, IndexOf(matchText, "::", 0) + 2)

\* the location pushed for one match of the definition or the getvar regex
NameLocation(doc, match, isDefinition) ==
    LocationAt(doc, match,
               PrefixLength(Substring(doc, match.index, match.end), match.name),
               isDefinition)

RECURSIVE NameLocations(_, _, _, _, _)
\* one turn of one of the first two while loops, then the turns after it
NameLocationsAfter(regex, doc, match, isDefinition, locations) ==
    IF ~match.found THEN locations
    ELSE NameLocations(regex, doc, match.end, isDefinition,
                       locations \o NameLocation(doc, match, isDefinition))

\* one of the first two while loops, from lastIndex on
NameLocations(regex, doc, lastIndex, isDefinition, locations) ==
    NameLocationsAfter(regex, doc, Exec(regex, doc, lastIndex), isDefinition, locations)

RECURSIVE DollarOccurrences(_, _, _, _)
\* one turn of the inner while loop for the occurrence at varIndexInMatch
DollarOccurrence(doc, match, varIndexInMatch, locations, loc) ==
    DollarOccurrences(doc, match, varIndexInMatch + 1,
                      IF \E k \in 1..Len(locations) : locations[k] = loc
                      THEN locations ELSE Append(locations, loc))

DollarOccurrenceAt(doc, match, currentSearchIndex, varIndexInMatch, locations) ==
    IF varIndexInMatch = -1 \/ currentSearchIndex > match.end - match.index
    THEN locations
    ELSE DollarOccurrence(doc, match, varIndexInMatch, locations,
             VariableLocation(match.name,
                              OffsetRange(doc, match.index + varIndexInMatch + 1,
                                          match.index + varIndexInMatch + 1
                                            + Len(match.name)),
                              FALSE))

\* the inner while loop of the third scan: every occurrence of `$` + varName in the
\* text of the match is pushed, unless an equal reference is in the list already
DollarOccurrences(doc, match, currentSearchIndex, locations) ==
    DollarOccurrenceAt(doc, match, currentSearchIndex,
                       IndexOf(Substring(doc, match.index, match.end), "$" \o match.name,
                               currentSearchIndex),
                       locations)

RECURSIVE DollarLocations(_, _, _)
DollarLocationsAfter(doc, match, locations) ==
    IF ~match.found THEN locations
    ELSE DollarLocations(doc, match.end, DollarOccurrences(doc, match, 0, locations))

\* the third while loop, from lastIndex on
DollarLocations(doc, lastIndex, locations) ==
    DollarLocationsAfter(doc, Exec("varReferenceDollarRegex", doc, lastIndex), locations)

\* parseDocumentForVariables(document)
parseDocumentForVariables(doc) ==
    DollarLocations(doc, 0,
        NameLocations("varReferenceGetRegex", doc, 0, FALSE,
            NameLocations("varDefinitionRegex", doc, 0, TRUE, <<>>)))

UndefinedVariable(loc) ==
    Diagnostic(loc.range,
               "Variable '" \o loc.name \o "' is used but not defined (with setvar/settempvar).",
               "Warning")

\* the names the first pass collects
DefinedVars(locations) ==
    {locations[k].name : k \in {k \in 1..Len(locations) : locations[k].isDefinition}}

\* one diagnostic for each of the locations, in their order
UndefinedVariables(flagged, locations) ==
    [diagnostics |-> [k \in 1..Len(flagged) |-> UndefinedVariable(flagged[k])],
     locations   |-> locations]

\* the second pass without the exemption of the names that hold `toggle_`
CheckAllReferences(locations, definedVars) ==
    UndefinedVariables(
        SelectSeq(locations, LAMBDA loc : ~loc.isDefinition /\ loc.name \notin definedVars),
        locations)

CheckAllLocations(locations) == CheckAllReferences(locations, DefinedVars(locations))

\* checkVariableUsage without the exemption of the names that hold `toggle_`
checkVariableUsageNoExemption(doc) == CheckAllLocations(parseDocumentForVariables(doc))

\* the second pass: the references to flag
CheckReferences(locations, definedVars) ==
    UndefinedVariables(
        SelectSeq(locations,
                  LAMBDA loc : /\ ~loc.isDefinition
                               /\ ~Includes(loc.name, "toggle_")
                               /\ loc.name \notin definedVars),
        locations)

CheckLocations(locations) == CheckReferences(locations, DefinedVars(locations))

\* checkVariableUsage(document)
checkVariableUsage(doc) == CheckLocations(parseDocumentForVariables(doc))

(***************************************************************************)
(* The formatter (src/src/cbsFormatter.ts)                                 *)
(***************************************************************************)
\* the number of matches of /\{\{#([\w-]+)/g in a line
CountBlockStarts(s) ==
    Cardinality({p \in 0..(Len(s) - 1) :
                   Substring(s, p, p + 3) = "{{#" /\ CharAt(s, p + 3) \in BlockNameChars})

\* the number of matches of /\{\{#(if-pure|pure_display)/g in a line
CountPureStarts(s) ==
    Cardinality({p \in 0..(Len(s) - 1) :
                   \/ Substring(s, p, p + 10) = "{{#if-pure"
                   \/ Substring(s, p, p + 15) = "{{#pure_display"})

\* /\{\{\/(?:[\w-]+)?\}\}|\{\{\/\}\}/ matches at p
BlockEndAt(s, p) ==
    /\ Substring(s, p, p + 3) = "{{/"
    /\ Two(s, RunEnd(s, p + 3, BlockNameChars)) = "}}"

\* the number of matches of the block end regex, with the g flag, in a line
CountBlockEnds(s) == Cardinality({p \in 0..(Len(s) - 1) : BlockEndAt(s, p)})

RECURSIVE PureChangeAfterEnds(_, _, _)
\* the loop over allBlockEnds: a closing tag closes a pure block when one is open
PureChangeAfterEnds(nextInPureBlock, pureChange, k) ==
    IF k = 0 THEN pureChange
    ELSE PureChangeAfterEnds(nextInPureBlock,
                             IF nextInPureBlock + pureChange > 0
                             THEN pureChange - 1 ELSE pureChange,
                             k - 1)

FormattingState(indentLevel, inPureBlock) ==
    [indentLevel |-> indentLevel, inPureBlock |-> inPureBlock]

\* nextState, from the counts of the three kinds of match in the trimmed line
NextStateFrom(currentState, blockStarts, pureStarts, blockEnds) ==
    FormattingState(
        Max(0, currentState.indentLevel + pureStarts + (blockStarts - pureStarts) - blockEnds),
        Max(0, currentState.inPureBlock
                 + PureChangeAfterEnds(currentState.inPureBlock, pureStarts, blockEnds)))

RECURSIVE Repeat(_, _)
\* s.repeat(n)
Repeat(s, n) == IF n <= 0 THEN "" ELSE s \o Repeat(s, n - 1)

\* indentChar
IndentChar(options) ==
    IF options.insertSpaces THEN Repeat(" ", options.tabSize) ELSE "\t"

Token(type, tokenText) == [type |-> type, text |-> tokenText]

RECURSIVE ScanTokens(_, _, _, _, _, _)
\* the token pushed for the text before a brace that stands outside every tag
WithTextBefore(lineText, nextBracePos, braceLevel, textStart, tokens) ==
    IF nextBracePos > textStart /\ braceLevel = 0
    THEN Append(tokens, Token("text", Substring(lineText, textStart, nextBracePos)))
    ELSE tokens

\* the turn of the loop for a closing `}}` at nextBracePos
ScanClosing(lineText, nextBracePos, braceLevel, tagStart, textStart, tokens) ==
    IF braceLevel > 0 /\ braceLevel - 1 = 0 /\ tagStart # -1
    THEN ScanTokens(lineText, nextBracePos + 2, 0, -1, nextBracePos + 2,
                    Append(tokens,
                           Token("tag", Substring(lineText, tagStart, nextBracePos + 2))))
    ELSE IF braceLevel > 0 /\ braceLevel - 1 # 0
    THEN ScanTokens(lineText, nextBracePos + 2, braceLevel - 1, tagStart, textStart, tokens)
    ELSE ScanTokens(lineText, nextBracePos + 2, 0, tagStart, nextBracePos + 2,
                    Append(tokens,
                           Token("text", Substring(lineText, textStart, nextBracePos + 2))))

\* the turn of the loop, given the offsets of the next `{{` and the next `}}`
ScanAt(lineText, openBracePos, closeBracePos, braceLevel, tagStart, textStart, tokens) ==
    IF openBracePos # -1 /\ (closeBracePos = -1 \/ openBracePos < closeBracePos)
    THEN ScanTokens(lineText, openBracePos + 2, braceLevel + 1,
                    IF braceLevel = 0 THEN openBracePos ELSE tagStart, textStart,
                    WithTextBefore(lineText, openBracePos, braceLevel, textStart, tokens))
    ELSE IF closeBracePos # -1
    THEN ScanClosing(lineText, closeBracePos, braceLevel, tagStart, textStart,
                     WithTextBefore(lineText, closeBracePos, braceLevel, textStart, tokens))
    ELSE [tokens |-> tokens, textStart |-> textStart]

\* the tokenizing while loop of formatLine, from currentPos on
ScanTokens(lineText, currentPos, braceLevel, tagStart, textStart, tokens) ==
    IF currentPos >= Len(lineText) THEN [tokens |-> tokens, textStart |-> textStart]
    ELSE ScanAt(lineText, IndexOf(lineText, "{{", currentPos),
                IndexOf(lineText, "}}", currentPos), braceLevel, tagStart, textStart,
                tokens)

\* the tokens of the loop and the one for the text left after the last brace
WithRemainingText(lineText, scanned) ==
    IF scanned.textStart < Len(lineText)
    THEN Append(scanned.tokens, Token("text", SubstringFrom(lineText, scanned.textStart)))
    ELSE scanned.tokens

LineTokens(lineText) == WithRemainingText(lineText, ScanTokens(lineText, 0, 0, -1, 0, <<>>))

IsBlockTagToken(token) ==
    token.type = "tag" /\ (StartsWith(token.text, "{{#") \/ StartsWith(token.text, "{{/"))

\* tokens.filter(...): a whitespace text token beside a block tag is dropped
MeaningfulTokens(tokens) ==
    LET kept == {k \in 1..Len(tokens) :
                   ~ /\ tokens[k].type = "text"
                     /\ Trim(tokens[k].text) = ""
                     /\ \/ k < Len(tokens) /\ IsBlockTagToken(tokens[k + 1])
                        \/ k > 1 /\ IsBlockTagToken(tokens[k - 1])}
    IN  [j \in 1..Cardinality(kept) |->
            tokens[CHOOSE k \in kept : Cardinality({m \in kept : m <= k}) = j]]

RECURSIVE Reconstruct(_, _, _, _, _)
\* the turn of the reconstruction loop for a tag token
ReconstructTag(tokens, k, reconstructedLine, level, indentChar) ==
    Reconstruct(tokens, k + 1,
                reconstructedLine \o (IF k > 1 THEN "\n" ELSE "")
                    \o Repeat(indentChar, level) \o Trim(tokens[k].text),
                IF StartsWith(tokens[k].text, "{{#") THEN level + 1 ELSE level,
                indentChar)

\* the turn of the reconstruction loop for a text token
ReconstructText(tokens, k, reconstructedLine, level, indentChar) ==
    Reconstruct(tokens, k + 1,
                IF Trim(tokens[k].text) = "" THEN reconstructedLine
                ELSE reconstructedLine
                       \o (IF k > 1
                           THEN IF CharAt(reconstructedLine, Len(reconstructedLine) - 1) = "}"
                                THEN "\n" \o Repeat(indentChar, level)
                                ELSE " "
                           ELSE Repeat(indentChar, level))
                       \o Trim(tokens[k].text),
                level, indentChar)

\* the reconstruction loop over meaningfulTokens, from the k-th token on
Reconstruct(tokens, k, reconstructedLine, level, indentChar) ==
    IF k > Len(tokens) THEN reconstructedLine
    ELSE IF tokens[k].type = "tag"
    THEN ReconstructTag(tokens, k, reconstructedLine,
                        IF StartsWith(tokens[k].text, "{{/") THEN Max(0, level - 1)
                        ELSE level,
                        indentChar)
    ELSE ReconstructText(tokens, k, reconstructedLine, level, indentChar)

\* formattedText: null, or a string
Null == [null |-> TRUE, text |-> ""]
Text(s) == [null |-> FALSE, text |-> s]

\* s.split('\n').length
SplitLength(s) == CountNewlines(s) + 1

LineFormattingResult(formattedText, nextState) ==
    [formattedText |-> formattedText, nextState |-> nextState,
     formattedLineCount |-> IF formattedText.null THEN 1
                            ELSE SplitLength(formattedText.text)]

\* the content of a line outside every pure block, from its reconstruction
FormattedOutsidePure(reconstructedLine, trimmedLine, currentIndent, correctIndent) ==
    IF Trim(reconstructedLine) # trimmedLine \/ currentIndent # correctIndent
    THEN IF Trim(reconstructedLine) = trimmedLine /\ currentIndent # correctIndent
         THEN Text(correctIndent \o trimmedLine)
         ELSE Text(reconstructedLine)
    ELSE Null

\* the content of a line of text that is not blank
FormattedContent(lineText, trimmedLine, inPureBlock, level, indentChar, currentIndent) ==
    IF inPureBlock = 0
    THEN FormattedOutsidePure(
             Reconstruct(MeaningfulTokens(LineTokens(lineText)), 1, "", level, indentChar),
             trimmedLine, currentIndent, Repeat(indentChar, level))
    ELSE IF currentIndent # Repeat(indentChar, level)
    THEN Text(Repeat(indentChar, level) \o trimmedLine)
    ELSE Null

\* effectiveIndentLevelForThisLine
EffectiveIndentLevel(trimmedLine, currentState) ==
    IF BlockEndAt(trimmedLine, 0) /\ currentState.inPureBlock = 0
         /\ currentState.indentLevel > 0
    THEN Max(0, currentState.indentLevel - 1)
    ELSE currentState.indentLevel

\* formatLine, given the trimmed line
FormatTrimmed(lineText, trimmedLine, currentState, options) ==
    IF Len(trimmedLine) = 0
    THEN LineFormattingResult(IF Len(lineText) > 0 THEN Text("") ELSE Null, currentState)
    ELSE LineFormattingResult(
             FormattedContent(lineText, trimmedLine, currentState.inPureBlock,
                              EffectiveIndentLevel(trimmedLine, currentState),
                              IndentChar(options),
                              Substring(lineText, 0, RunEnd(lineText, 0, WhiteSpace))),
             NextStateFrom(currentState, CountBlockStarts(trimmedLine),
                           CountPureStarts(trimmedLine), CountBlockEnds(trimmedLine)))

\* formatLine(line, currentState, options)
formatLine(lineText, currentState, options) ==
    FormatTrimmed(lineText, Trim(lineText), currentState, options)

RECURSIVE SplitLines(_, _)
\* s.split('\n'), from offset `from` on
SplitLinesAt(s, from, newline) ==
    IF newline = -1 THEN <<SubstringFrom(s, from)>>
    ELSE <<Substring(s, from, newline)>> \o SplitLines(s, newline + 1)

SplitLines(s, from) == SplitLinesAt(s, from, IndexOf(s, "\n", from))

\* document.lineAt(i).text for every line i of the document
TextLines(doc) == SplitLines(doc, 0)

\* a source map entry whose end line is the line after the last
SourceMapEntryEndExclusive(originalLine, formattedStartLine, formattedLineCount) ==
    [originalLine |-> originalLine, formattedStartLine |-> formattedStartLine,
     formattedEndLine |-> formattedStartLine + Max(1, formattedLineCount)]

\* the entry pushed for an original line: its end line is inclusive
SourceMapEntry(originalLine, formattedStartLine, formattedLineCount) ==
    [originalLine |-> originalLine, formattedStartLine |-> formattedStartLine,
     formattedEndLine |-> formattedStartLine + Max(0, formattedLineCount - 1)]

\* what formatDocumentWithMapping has after a line: the state for the next line, the
\* output lines, the source map, and what formatLine was given and returned
AfterLine(loop, lineText, result) ==
    [currentState         |-> result.nextState,
     formattedLines       |-> loop.formattedLines
                                \o SplitLines(IF result.formattedText.null THEN lineText
                                              ELSE result.formattedText.text, 0),
     sourceMap            |-> Append(loop.sourceMap,
                                     SourceMapEntry(Len(loop.sourceMap),
                                                    loop.currentFormattedLine,
                                                    result.formattedLineCount)),
     currentFormattedLine |-> loop.currentFormattedLine + result.formattedLineCount,
     lines                |-> Append(loop.lines,
                                     [text |-> lineText, state |-> loop.currentState,
                                      result |-> result])]

RECURSIVE FormatLines(_, _, _, _)
\* the for loop of formatDocumentWithMapping, from line i on
FormatLines(lines, i, loop, options) ==
    IF i > Len(lines) THEN loop
    ELSE FormatLines(lines, i + 1,
                     AfterLine(loop, lines[i], formatLine(lines[i], loop.currentState, options)),
                     options)

\* the loop before its first line
BeforeLines ==
    [currentState |-> FormattingState(0, 0), formattedLines |-> <<>>, sourceMap |-> <<>>,
     currentFormattedLine |-> 0, lines |-> <<>>]

\* the FullFormattingResult of a finished loop, and with it what every line went through
FullFormattingResult(loop, options) ==
    [ran |-> TRUE, options |-> options, formattedText |-> Join(loop.formattedLines, "\n"),
     sourceMap |-> loop.sourceMap, lines |-> loop.lines]

\* no document has been formatted
NotFormatting ==
    [ran |-> FALSE, options |-> [tabSize |-> 0, insertSpaces |-> FALSE],
     formattedText |-> "", sourceMap |-> <<>>, lines |-> <<>>]

(***************************************************************************)
(* extension.ts: the formatted previews                                    *)
(***************************************************************************)
\* the preview uris the command can make: each call makes a new one (its `_ts` is the
\* time of the call), the k-th call the uri k
MaxPreviews == 3
PreviewUris == 1..MaxPreviews

\* previewContextMap has no context for the preview uri
NoContext == [present |-> FALSE, originalUri |-> "", sourceMap |-> <<>>, formattedContent |-> ""]

\* interface PreviewContext
PreviewContext(originalUri, sourceMap, formattedContent) ==
    [present |-> TRUE, originalUri |-> originalUri, sourceMap |-> sourceMap,
     formattedContent |-> formattedContent]

\* originalToPreviewMap has no entry for the original; otherwise it holds a Set object,
\* named by the preview uri whose command made it
NoSet == 0

\* updatePreviewDebounceTimer is undefined
NoPreviewTimer == [pending |-> FALSE, originalUriString |-> "", correspondingPreviewUris |-> NoSet]

\* the options the command and the update format with: insertSpaces is
\* `editor.options.insertSpaces || true`
PreviewOptions == [tabSize |-> 4, insertSpaces |-> TRUE]

\* formatDocumentWithMapping(document, options) as the preview code calls it
FormattedPreview(doc) ==
    FullFormattingResult(FormatLines(TextLines(doc), 1, BeforeLines, PreviewOptions),
                         PreviewOptions)

\* the command cbs.showFormattedPreview with the document as the active editor's: the
\* context of a new preview uri is stored and the uri is added to the Set of the
\* original, a new Set when the original has none (a preview document is never in
\* `documents`, so the command is never run from one)
showPreviewCommand(uri) ==
    IF documents[uri].languageId # "cbs"
    THEN UNCHANGED vars
    ELSE /\ previewsShown < MaxPreviews
         /\ previewsShown' = previewsShown + 1
         /\ previewContextMap' =
                [previewContextMap EXCEPT ![previewsShown'] =
                    PreviewContext(uri, FormattedPreview(documents[uri].text).sourceMap,
                                   FormattedPreview(documents[uri].text).formattedText)]
         /\ originalToPreviewMap' =
                IF originalToPreviewMap[uri] = NoSet
                THEN [originalToPreviewMap EXCEPT ![uri] = previewsShown']
                ELSE originalToPreviewMap
         /\ previewSets' =
                [previewSets EXCEPT ![originalToPreviewMap'[uri]] = @ \cup {previewsShown'}]
         /\ UNCHANGED <<documents, diagnosticCollection, debounceTimer, regexLastIndex,
                        registry, passes, formatting, progress, turn,
                        updatePreviewDebounceTimer>>

\* documentChangeListener, for an edit that has made newText the document's text (with
\* cbs.preview.realtimeUpdate enabled): when the original has previews, the timer the
\* variable holds is cleared and a new one takes its place, whose callback keeps the
\* document and the Set it found
documentChangeListener(uri, newText) ==
    /\ documents' = [documents EXCEPT ![uri].text = newText]
    /\ updatePreviewDebounceTimer' =
           IF /\ documents[uri].languageId = "cbs"
              /\ originalToPreviewMap[uri] # NoSet
              /\ previewSets[originalToPreviewMap[uri]] # {}
           THEN [pending |-> TRUE, originalUriString |-> uri,
                 correspondingPreviewUris |-> originalToPreviewMap[uri]]
           ELSE updatePreviewDebounceTimer
    /\ UNCHANGED <<diagnosticCollection, debounceTimer, regexLastIndex, registry, passes,
                   formatting, progress, turn, previewContextMap, originalToPreviewMap,
                   previewSets, previewsShown>>

\* the context after an update: `...existingContext` keeps its originalUri
UpdatedContext(existingContext, formatted) ==
    PreviewContext(existingContext.originalUri, formatted.sourceMap, formatted.formattedText)

\* the callback of the timer: the document is formatted as it is now, and each preview
\* uri of the Set that still has a context gets the new source map and content
updatePreviewDebounceTimerFires ==
    /\ updatePreviewDebounceTimer.pending
    /\ previewContextMap' =
           [previewUri \in PreviewUris |->
               IF /\ previewUri \in previewSets[updatePreviewDebounceTimer.correspondingPreviewUris]
                  /\ previewContextMap[previewUri].present
               THEN UpdatedContext(
                        previewContextMap[previewUri],
                        FormattedPreview(
                            documents[updatePreviewDebounceTimer.originalUriString].text))
               ELSE previewContextMap[previewUri]]
    /\ updatePreviewDebounceTimer' = NoPreviewTimer
    /\ UNCHANGED <<documents, diagnosticCollection, debounceTimer, regexLastIndex, registry,
                   passes, formatting, progress, turn, originalToPreviewMap, previewSets,
                   previewsShown>>

\* closeDocumentListener for a preview document with only its context deleted
closeDocumentListenerKeepingSets(previewUri) ==
    /\ previewContextMap[previewUri].present
    /\ previewContextMap' = [previewContextMap EXCEPT ![previewUri] = NoContext]
    /\ UNCHANGED <<documents, diagnosticCollection, debounceTimer, regexLastIndex, registry,
                   passes, formatting, progress, turn, originalToPreviewMap, previewSets,
                   updatePreviewDebounceTimer, previewsShown>>

\* closeDocumentListener for an open preview document: its context is deleted, its
\* uri is deleted from every Set of the map that has it, and an entry whose Set has
\* become empty is deleted
closeDocumentListener(previewUri) ==
    /\ previewContextMap[previewUri].present
    /\ previewContextMap' = [previewContextMap EXCEPT ![previewUri] = NoContext]
    /\ previewSets' =
           [set \in PreviewUris |->
               IF \E uri \in DOMAIN originalToPreviewMap : originalToPreviewMap[uri] = set
               THEN previewSets[set] \ {previewUri}
               ELSE previewSets[set]]
    /\ originalToPreviewMap' =
           [uri \in DOMAIN originalToPreviewMap |->
               IF /\ originalToPreviewMap[uri] # NoSet
                  /\ previewUri \in previewSets[originalToPreviewMap[uri]]
                  /\ previewSets'[originalToPreviewMap[uri]] = {}
               THEN NoSet
               ELSE originalToPreviewMap[uri]]
    /\ UNCHANGED <<documents, diagnosticCollection, debounceTimer, regexLastIndex, registry,
                   passes, formatting, progress, turn, updatePreviewDebounceTimer,
                   previewsShown>>

\* deactivate(): the timer is cleared and both maps are cleared
deactivate ==
    /\ updatePreviewDebounceTimer' = [updatePreviewDebounceTimer EXCEPT !.pending = FALSE]
    /\ previewContextMap' = [previewUri \in PreviewUris |-> NoContext]
    /\ originalToPreviewMap' = [uri \in DOMAIN originalToPreviewMap |-> NoSet]
    /\ UNCHANGED <<documents, diagnosticCollection, debounceTimer, regexLastIndex, registry,
                   passes, formatting, progress, turn, previewSets, previewsShown>>

(***************************************************************************)
(* The linter's state and its event handlers                               *)
(***************************************************************************)
\* the collection holds no entry for the document
NoEntry == [present |-> FALSE, diagnostics |-> <<>>]

\* no lint pass has run yet
NoPass ==
    [ran      |-> FALSE,
     text     |-> "",
     block    |-> [diagnostics |-> <<>>, blockStack |-> <<>>, events |-> <<>>],
     command  |-> [diagnostics |-> <<>>, spans |-> <<>>, calls |-> <<>>],
     variable |-> [diagnostics |-> <<>>, locations |-> <<>>],
     syntax   |-> [diagnostics |-> <<>>]]

\* what the four checkers compute for a text, in the order updateDiagnostics calls them
LintPass(doc) ==
    [ran      |-> TRUE,
     text     |-> doc,
     block    |-> checkBlockMismatch(doc),
     command  |-> checkCommandUsage(doc),
     variable |-> checkVariableUsage(doc),
     syntax   |-> [diagnostics |-> checkGeneralSyntax(doc)]]

\* isCbsDocument(document)
isCbsDocument(document) == document.languageId = "cbs"

\* the array updateDiagnostics fills: the four checkers' diagnostics, in call order
AllDiagnostics(p) ==
    p.block.diagnostics \o p.command.diagnostics \o p.variable.diagnostics
        \o p.syntax.diagnostics

Regexes == {"varDefinitionRegex", "varReferenceGetRegex", "varReferenceDollarRegex"}

RECURSIVE LastIndexAfter(_, _, _)
\* the lastIndex a `while ((match = regex.exec(text)) !== null)` loop leaves: exec sets
\* it to the end of each match and to 0 when it finds none
LastIndexAfterMatch(regex, doc, match) ==
    IF match.found THEN LastIndexAfter(regex, doc, match.end) ELSE 0

LastIndexAfter(regex, doc, from) == LastIndexAfterMatch(regex, doc, Exec(regex, doc, from))

\* the state of the three regexes after parseDocumentForVariables, which resets each
\* lastIndex to 0 and then runs each loop to its end
LastIndexAfterParse(doc) == [regex \in Regexes |-> LastIndexAfter(regex, doc, 0)]

\* the entry a pass gives the document
EntryOf(p) == [present |-> TRUE, diagnostics |-> AllDiagnostics(p)]

\* updateDiagnostics when the diagnostics of the pass are pushed after those of the
\* entry the collection holds
updateDiagnosticsAppending(uri) ==
    IF ~isCbsDocument(documents[uri])
    THEN UNCHANGED vars
    ELSE /\ passes' = [passes EXCEPT ![uri] = LintPass(documents[uri].text)]
         /\ diagnosticCollection' =
                [diagnosticCollection EXCEPT ![uri] =
                    [present |-> TRUE,
                     diagnostics |-> diagnosticCollection[uri].diagnostics
                                       \o AllDiagnostics(passes'[uri])]]
         /\ regexLastIndex' = LastIndexAfterParse(documents[uri].text)
         /\ UNCHANGED <<documents, debounceTimer, registry, formatting, progress, turn, previewVars>>

\* updateDiagnostics when the collection is cleared before the entry is set
updateDiagnosticsClearingAll(uri) ==
    IF ~isCbsDocument(documents[uri])
    THEN UNCHANGED vars
    ELSE /\ passes' = [passes EXCEPT ![uri] = LintPass(documents[uri].text)]
         /\ diagnosticCollection' =
                [u \in DOMAIN diagnosticCollection |->
                    IF u = uri THEN EntryOf(passes'[uri]) ELSE NoEntry]
         /\ regexLastIndex' = LastIndexAfterParse(documents[uri].text)
         /\ UNCHANGED <<documents, debounceTimer, registry, formatting, progress, turn, previewVars>>

\* updateDiagnostics(document): nothing for a document of another language; otherwise
\* the diagnostics of this pass replace the document's entry
updateDiagnostics(uri) ==
    IF ~isCbsDocument(documents[uri])
    THEN UNCHANGED vars
    ELSE /\ passes' = [passes EXCEPT ![uri] = LintPass(documents[uri].text)]
         /\ diagnosticCollection' =
                [diagnosticCollection EXCEPT ![uri] = EntryOf(passes'[uri])]
         /\ regexLastIndex' = LastIndexAfterParse(documents[uri].text)
         /\ UNCHANGED <<documents, debounceTimer, registry, formatting, progress, turn, previewVars>>

\* the host closes the document (TextDocument.isClosed) and the handler of
\* vscode.workspace.onDidCloseTextDocument runs: the entry is deleted, and with it the
\* pass that produced it; the timer is left as it is
onDidCloseTextDocument(uri) ==
    /\ documents' = [documents EXCEPT ![uri].isClosed = TRUE]
    /\ diagnosticCollection' = [diagnosticCollection EXCEPT ![uri] = NoEntry]
    /\ passes' = [passes EXCEPT ![uri] = NoPass]
    /\ UNCHANGED <<debounceTimer, regexLastIndex, registry, formatting, progress, turn, previewVars>>

\* the host opens the document again; the linter subscribes to no event of it
openTextDocument(uri) ==
    /\ documents[uri].isClosed
    /\ documents' = [documents EXCEPT ![uri].isClosed = FALSE]
    /\ UNCHANGED <<diagnosticCollection, debounceTimer, regexLastIndex, registry, passes,
                   formatting, progress, turn, previewVars>>

\* the handler of vscode.window.onDidChangeActiveTextEditor
onDidChangeActiveTextEditor(uri) ==
    IF isCbsDocument(documents[uri]) THEN updateDiagnostics(uri) ELSE UNCHANGED vars

\* the handler of vscode.workspace.onDidSaveTextDocument
onDidSaveTextDocument(uri) ==
    IF isCbsDocument(documents[uri]) THEN updateDiagnostics(uri) ELSE UNCHANGED vars

\* no setTimeout has been called yet
NoTimer == [set |-> FALSE, pending |-> FALSE, uri |-> ""]

\* the handler of vscode.workspace.onDidChangeTextDocument, for an edit that has made
\* newText the document's text: the timer the field holds is cleared and a new one,
\* whose callback lints this document, takes its place
onDidChangeTextDocument(uri, newText) ==
    /\ documents' = [documents EXCEPT ![uri].text = newText]
    /\ debounceTimer' = IF isCbsDocument(documents[uri])
                        THEN [set |-> TRUE, pending |-> TRUE, uri |-> uri]
                        ELSE debounceTimer
    /\ UNCHANGED <<diagnosticCollection, regexLastIndex, registry, passes, formatting, progress, turn, previewVars>>

\* the callback of setTimeout, 500 ms after the call that set the timer unless
\* clearTimeout came first: it lints the document of the event that set it
debounceTimerFires ==
    /\ debounceTimer.pending
    /\ debounceTimer' = [debounceTimer EXCEPT !.pending = FALSE]
    /\ IF isCbsDocument(documents[debounceTimer.uri])
       THEN /\ passes' = [passes EXCEPT ![debounceTimer.uri] =
                              LintPass(documents[debounceTimer.uri].text)]
            /\ diagnosticCollection' =
                   [diagnosticCollection EXCEPT ![debounceTimer.uri] =
                       EntryOf(passes'[debounceTimer.uri])]
            /\ regexLastIndex' = LastIndexAfterParse(documents[debounceTimer.uri].text)
            /\ UNCHANGED <<documents, registry, formatting, progress, turn, previewVars>>
       ELSE UNCHANGED <<documents, diagnosticCollection, regexLastIndex, registry, passes,
                         formatting, progress, turn, previewVars>>

\* formatDocumentWithMapping(document, options)
formatDocumentWithMapping(uri, options) ==
    /\ formatting' = FullFormattingResult(
                          FormatLines(TextLines(documents[uri].text), 1, BeforeLines, options),
                          options)
    /\ UNCHANGED <<documents, diagnosticCollection, debounceTimer, regexLastIndex, registry,
                   passes, progress, turn, previewVars>>

(***************************************************************************)
(* A lint pass taken one loop turn at a time                               *)
(***************************************************************************)
\* where the pass stands: the checker it is in, the loop of that checker, the index of
\* the loop (index, i, lastIndex), the index of the loop inside it (endIndex,
\* currentSearchIndex), the brace counter (braceCount, braceLevel), the start the loop
\* keeps (currentTagStartIndex, match.index) and the calls of lintRecursive under way
Scan(checker, loop, index, inner, count, start, frames) ==
    [checker |-> checker, loop |-> loop, index |-> index, inner |-> inner,
     count |-> count, start |-> start, frames |-> frames]

NotScanning == Scan("none", "", 0, 0, 0, -1, <<>>)

\* a loop of a checker before its first turn
LoopStart(checker, loop) == Scan(checker, loop, 0, 0, 0, -1, <<>>)

\* updateDiagnostics has set the entry and returned
Returned == Scan("done", "", 0, 0, 0, -1, <<>>)

\* one turn of the outer while loop of checkBlockMismatch, or its end
checkBlockMismatchWhile(doc, s) ==
    IF s.index < Len(doc)
    THEN IF Two(doc, s.index) = "{{"
         THEN [s EXCEPT !.loop = "inner while", !.inner = s.index + 2, !.count = 1]
         ELSE [s EXCEPT !.index = s.index + 1]
    ELSE LoopStart("checkCommandUsage", "for")

\* the inner while loop with no `endIndex++` for a character that is no brace
checkBlockMismatchInnerWhileStaying(doc, s) ==
    IF s.inner < Len(doc) /\ s.count > 0
    THEN IF Two(doc, s.inner) = "{{"
         THEN [s EXCEPT !.count = s.count + 1, !.inner = s.inner + 2]
         ELSE IF Two(doc, s.inner) = "}}"
         THEN IF s.count - 1 = 0
              THEN [s EXCEPT !.loop = "while", !.index = s.inner + 2, !.inner = 0,
                             !.count = 0]
              ELSE [s EXCEPT !.count = s.count - 1, !.inner = s.inner + 2]
         ELSE s
    ELSE [s EXCEPT !.loop = "while", !.index = s.inner, !.inner = 0, !.count = 0]

\* one turn of the inner while loop, or its end, after which `index = endIndex`
checkBlockMismatchInnerWhile(doc, s) ==
    IF s.inner < Len(doc) /\ s.count > 0
    THEN IF Two(doc, s.inner) = "{{"
         THEN [s EXCEPT !.count = s.count + 1, !.inner = s.inner + 2]
         ELSE IF Two(doc, s.inner) = "}}"
         THEN IF s.count - 1 = 0
              THEN [s EXCEPT !.loop = "while", !.index = s.inner + 2, !.inner = 0,
                             !.count = 0]
              ELSE [s EXCEPT !.count = s.count - 1, !.inner = s.inner + 2]
         ELSE [s EXCEPT !.inner = s.inner + 1]
    ELSE [s EXCEPT !.loop = "while", !.index = s.inner, !.inner = 0, !.count = 0]

\* a call of lintRecursive under way: the tag, the depth, the parameters it loops over
\* (none when it returns before the loop), the index of the loop and the search offset
Frame(tagContentWithBraces, currentDepth, parsed) ==
    [tag |-> tagContentWithBraces, depth |-> currentDepth,
     paramsString |-> parsed.paramsString, paramsArray |-> parsed.paramsArray,
     i |-> 1, currentSearchOffsetInParamsString |-> 0]

\* the call of lintRecursive as it enters its parameter loop
lintRecursiveCall(tagContentWithBraces, currentDepth) ==
    IF \/ currentDepth > MAX_RECURSION_DEPTH
       \/ Trim(Slice2(tagContentWithBraces)) = ""
       \/ StartsWith(Trim(Slice2(tagContentWithBraces)), "/")
       \/ StartsWith(Trim(Slice2(tagContentWithBraces)), "?")
       \/ Trim(Slice2(tagContentWithBraces)) = ":else"
    THEN Frame(tagContentWithBraces, currentDepth, NoParsedTag)
    ELSE Frame(tagContentWithBraces, currentDepth,
               Decompose(Trim(Slice2(tagContentWithBraces))))

\* one turn of the for loop of checkCommandUsage, or its end
checkCommandUsageFor(doc, s) ==
    IF s.index < Len(doc) - 1
    THEN IF Two(doc, s.index) = "{{"
         THEN [s EXCEPT !.start = IF s.count = 0 THEN s.index ELSE s.start,
                        !.count = s.count + 1, !.index = s.index + 2]
         ELSE IF Two(doc, s.index) = "}}"
         THEN IF s.count > 0 /\ s.count - 1 = 0 /\ s.start # -1
              THEN [s EXCEPT !.count = 0, !.start = -1, !.index = s.index + 2,
                             !.frames = <<lintRecursiveCall(
                                            Substring(doc, s.start, s.index + 2), 0)>>]
              ELSE [s EXCEPT !.count = IF s.count > 0 THEN s.count - 1 ELSE s.count,
                             !.index = s.index + 2]
         ELSE [s EXCEPT !.index = s.index + 1]
    ELSE LoopStart("checkVariableUsage", "varDefinitionRegex")

\* one turn of the parameter loop of the innermost call of lintRecursive, or its return:
\* the call goes on to its next parameter and recurses into this one when it is a tag;
\* it returns after the last parameter, and on the `break`
lintRecursiveFor(frames, top) ==
    IF top.i > Len(top.paramsArray) THEN SubSeq(frames, 1, Len(frames) - 1)
    ELSE LET paramStrUntrimmed == top.paramsArray[top.i]
             paramActualStartInParamsString ==
                 IndexOf(top.paramsString, paramStrUntrimmed,
                         top.currentSearchOffsetInParamsString)
             paramToRecurseOn == Trim(paramStrUntrimmed)
         IN  IF paramActualStartInParamsString = -1
             THEN SubSeq(frames, 1, Len(frames) - 1)
             ELSE [frames EXCEPT ![Len(frames)] =
                      [top EXCEPT !.i = top.i + 1,
                                  !.currentSearchOffsetInParamsString =
                                      paramActualStartInParamsString
                                        + Len(paramStrUntrimmed)]]
                    \o (IF /\ StartsWith(paramToRecurseOn, "{{")
                            /\ EndsWith(paramToRecurseOn, "}}")
                            /\ Trim(Slice2(paramToRecurseOn)) # ""
                         THEN <<lintRecursiveCall(paramToRecurseOn, top.depth + 1)>>
                         ELSE <<>>)

\* the loop that follows the loop of a regex once exec returns null
AfterRegex(regex) ==
    IF regex = "varDefinitionRegex"
    THEN LoopStart("checkVariableUsage", "varReferenceGetRegex")
    ELSE IF regex = "varReferenceGetRegex"
    THEN LoopStart("checkVariableUsage", "varReferenceDollarRegex")
    ELSE LoopStart("checkGeneralSyntax", "while")

\* one turn of one of the three `while ((match = regex.exec(text)) !== null)` loops of
\* parseDocumentForVariables, or its end; a match of the third regex starts the loop
\* over the occurrences of its name
parseDocumentForVariablesWhile(doc, s) ==
    LET match == Exec(s.loop, doc, s.index)
    IN  IF ~match.found THEN AfterRegex(s.loop)
        ELSE IF s.loop = "varReferenceDollarRegex"
        THEN [s EXCEPT !.loop = "indexOf", !.index = match.end, !.start = match.index,
                       !.inner = 0]
        ELSE [s EXCEPT !.index = match.end]

\* one turn of `while ((varIndexInMatch = fullMatchText.indexOf(...)) !== -1)`, or its
\* end
parseDocumentForVariablesIndexOf(doc, s) ==
    LET match == MatchAt("varReferenceDollarRegex", doc, s.start)
        varIndexInMatch ==
            IndexOf(Substring(doc, match.index, match.end), "$" \o match.name, s.inner)
    IN  IF varIndexInMatch = -1 \/ s.inner > match.end - match.index
        THEN [s EXCEPT !.loop = "varReferenceDollarRegex", !.inner = 0, !.start = -1]
        ELSE [s EXCEPT !.inner = varIndexInMatch + 1]

\* one turn of the while loop of checkGeneralSyntax, or its end
checkGeneralSyntaxWhile(doc, s) ==
    LET openBracePos  == IndexOf(doc, "{{", s.index)
        closeBracePos == IndexOf(doc, "}}", s.index)
    IN  IF s.index >= Len(doc) \/ (openBracePos = -1 /\ closeBracePos = -1)
        THEN LoopStart("updateDiagnostics", "set")
        ELSE IF openBracePos # -1 /\ (closeBracePos = -1 \/ openBracePos < closeBracePos)
        THEN [s EXCEPT !.index = openBracePos + 2]
        ELSE IF closeBracePos # -1 THEN [s EXCEPT !.index = closeBracePos + 2]
        ELSE LoopStart("updateDiagnostics", "set")

\* the four checkers have returned: no loop of the pass and no call of lintRecursive
\* is under way any more
CheckersReturned == progress.checker \in {"updateDiagnostics", "done"}

\* the pass goes one turn on, nothing else changes
ScanTurn(next) ==
    /\ progress' = next
    /\ turn' = ~turn
    /\ UNCHANGED <<documents, diagnosticCollection, debounceTimer, regexLastIndex, registry,
                   passes, formatting, previewVars>>

\* updateDiagnostics is called: it returns at once for a document of another language
updateDiagnosticsCalled(uri) ==
    /\ progress.checker = "none"
    /\ ScanTurn(IF isCbsDocument(documents[uri])
                THEN LoopStart("checkBlockMismatch", "while") ELSE Returned)

checkBlockMismatchTurn(uri) ==
    /\ progress.checker = "checkBlockMismatch"
    /\ ScanTurn(IF progress.loop = "while"
                THEN checkBlockMismatchWhile(documents[uri].text, progress)
                ELSE checkBlockMismatchInnerWhile(documents[uri].text, progress))

checkCommandUsageTurn(uri) ==
    /\ progress.checker = "checkCommandUsage"
    /\ progress.frames = <<>>
    /\ ScanTurn(checkCommandUsageFor(documents[uri].text, progress))

lintRecursiveTurn ==
    /\ progress.checker = "checkCommandUsage"
    /\ progress.frames # <<>>
    /\ ScanTurn([progress EXCEPT
                    !.frames = lintRecursiveFor(progress.frames, progress.frames[Len(progress.frames)])])

checkVariableUsageTurn(uri) ==
    /\ progress.checker = "checkVariableUsage"
    /\ ScanTurn(IF progress.loop = "indexOf"
                THEN parseDocumentForVariablesIndexOf(documents[uri].text, progress)
                ELSE parseDocumentForVariablesWhile(documents[uri].text, progress))

checkGeneralSyntaxTurn(uri) ==
    /\ progress.checker = "checkGeneralSyntax"
    /\ ScanTurn(checkGeneralSyntaxWhile(documents[uri].text, progress))

\* the four checkers have returned: the entry is set as updateDiagnostics sets it
updateDiagnosticsReturns(uri) ==
    /\ progress.checker = "updateDiagnostics"
    /\ passes' = [passes EXCEPT ![uri] = LintPass(documents[uri].text)]
    /\ diagnosticCollection' = [diagnosticCollection EXCEPT ![uri] = EntryOf(passes'[uri])]
    /\ regexLastIndex' = LastIndexAfterParse(documents[uri].text)
    /\ progress' = Returned
    /\ UNCHANGED <<documents, debounceTimer, registry, formatting, turn, previewVars>>

\* the document the checkers are studied on, and what the state holds for it
Main == "file:///a"
text == documents[Main].text
languageId == documents[Main].languageId
pass == passes[Main]

\* a lint pass of the document, or its closing: updateDiagnostics is what the
\* listeners for an editor becoming active, a save and a (debounced) change run
Next ==
    \/ updateDiagnostics(Main)
    \/ onDidCloseTextDocument(Main)

(***************************************************************************)
(* The documents checked                                                   *)
(***************************************************************************)
RECURSIVE Concat(_)
\* the pieces of a sequence of strings, one after the other
Concat(pieces) ==
    IF pieces = <<>> THEN "" ELSE Head(pieces) \o Concat(Tail(pieces))

\* the sequences of at most n elements of S
SeqsUpTo(S, n) == UNION {[1..k -> S] : k \in 0..n}

LanguageIds == {"cbs", "plaintext"}

\* the documents of the worked examples
ExampleTexts ==
    {"{{ a : b }}", "Hello {{user}}!", "{{getvar::y}}", "{{? 1 : 2}}", "{{}}",
     "{{#if x}}\n{{user}}\n{{/if}}", "{{#a}}{{/b}}", "{{calc::$a + $b}}"}

\* texts of braces: every way to put at most MaxBracePieces of the pieces in a row
MaxBracePieces == 5
BracePieces == {"{{", "}}", "{", "}", "a", "\n"}
BraceTexts == {Concat(ps) : ps \in SeqsUpTo(BracePieces, MaxBracePieces)}

\* texts of one tag: a lead, a command name, a first separator and at most MaxParams
\* raw parameters, the parameters joined by `::`
MaxParams == 3
TagLeads == {"", "#", " "}
TagNames == {"min", "risu", "slot", "random", "replace", "metadata", "roll", "user",
             "Dict", "zz"}
TagSeparators == {"::", ":", " "}
TagParams == {" a b", "{{min::1:: {{zz}} }}", ""}
TagText(lead, name, separator, params) ==
    "{{" \o lead \o name
         \o (IF params = <<>> THEN "" ELSE separator \o Join(params, "::")) \o "}}"
CommandTexts ==
    ExampleTexts \cup
    {TagText(lead, name, separator, params) :
        lead \in TagLeads, name \in TagNames, separator \in TagSeparators,
        params \in SeqsUpTo(TagParams, MaxParams)}

\* texts of nested tags: a tag wrapped MaxNest times or fewer in `{{min::...}}`, with or
\* without one more parameter beside it (before or after the tag in the innermost
\* wrapper, or after the chain in the outermost one) and with or without a top-level
\* tag after the whole
MaxNest == 12
InnerTags == {"{{zz}}", "{{replace::a}}", "{{user}}", "{{#zz::{{zz}}}}", "{{/zz}}",
              "{{? zz}}", "{{:else}}", "{{getvar::x}}", "{{replace::{{zz}}}}"}
SiblingPlaces ==
    {[inner |-> "none", outer |-> "none"], [inner |-> "before", outer |-> "none"],
     [inner |-> "after", outer |-> "none"], [inner |-> "none", outer |-> "after"]}
Beside(tag, place) ==
    IF place = "before" THEN "{{zz}}::" \o tag
    ELSE IF place = "after" THEN tag \o "::{{zz}}"
    ELSE tag
RECURSIVE Wrap(_, _, _, _)
\* `tag` inside `depth` wrappers; k counts the wrappers from the innermost (1) outwards
Wrap(tag, depth, k, places) ==
    IF k > depth THEN tag
    ELSE Wrap("{{min::" \o Beside(tag, IF k = 1 THEN places.inner
                                       ELSE IF k = depth THEN places.outer
                                       ELSE "none") \o "}}",
              depth, k + 1, places)
NestTexts ==
    {Wrap(tag, depth, 1, places) \o trailer :
        tag \in InnerTags, depth \in 0..MaxNest, places \in SiblingPlaces,
        trailer \in {"", " {{zz}}"}}

\* texts of deprecated tags: a tag wrapped MaxNest times or fewer as the nested tags
\* are, the tag naming a deprecated signature with a valid or an invalid count of
\* parameters, by its name in either case or by an alias, or naming none
DeprecatedInnerTags ==
    {"{{legacy::a}}", "{{legacy}}", "{{LEGACY::a::b}}", "{{older::a}}", "{{legacy:a}}",
     "{{mixed}}", "{{twice::a}}", "{{#old x}}", "{{#old::{{legacy}}}}", "{{user}}",
     "{{/old}}"}
DeprecatedTexts ==
    {Wrap(tag, depth, 1, places) \o trailer :
        tag \in DeprecatedInnerTags, depth \in 0..MaxNest, places \in SiblingPlaces,
        trailer \in {"", " {{legacy}}"}}

\* texts to format: at most MaxFormatLines lines, each one of the pieces
MaxFormatLines == 5
FormatPieces == {"{{#pure_display}}", "{{#if x}}", "{{/if}}", "{{/pure_display}}",
                 " a {{user}}"}
FormatTexts == {Join(ls, "\n") : ls \in SeqsUpTo(FormatPieces, MaxFormatLines)}
FormatOptions == {[tabSize |-> 2, insertSpaces |-> TRUE], [tabSize |-> 4, insertSpaces |-> FALSE]}

\* texts of parameter tags: `{{zz}}` inside MaxOffsetLevel tags or fewer, each the
\* parameter of a tag named `min` or `{{zz}}`, written with or without a blank before
\* it and with or without a parameter `{{zz}}` before it
MaxOffsetLevel == 3
RECURSIVE OffsetTags(_)
OffsetTags(level) ==
    IF level = 0 THEN {"{{zz}}"}
    ELSE {"{{" \o name \o "::" \o before \o lead \o tag \o "}}" :
             name \in {"min", "{{zz}}"}, before \in {"", "{{zz}}::"}, lead \in {"", " "},
             tag \in OffsetTags(level - 1)}
OffsetTexts == UNION {OffsetTags(level) : level \in 0..MaxOffsetLevel}

\* texts of block tags: at most MaxBlockTags of the pieces in a row
MaxBlockTags == 4
BlockPieces == {"{{#a}}", "{{#b x}}", "{{/a}}", "{{/b}}", "{{/}}", "{{user\n}}", "\n"}
BlockTexts == {Concat(ps) : ps \in SeqsUpTo(BlockPieces, MaxBlockTags)}

\* texts of variable tags: at most MaxVarTags of the pieces in a row
MaxVarTags == 2
VarPieces ==
    {"{{setvar::a::1}}", "{{SetTempVar::b::2}}", "{{getvar::a}}", "{{gettempvar::b}}",
     "{{getglobalvar::toggle_a}}", "{{getvar::c}}", "{{calc::$a + $b}}", "{{?::$b}}",
     "{{? $a}}", "{{setvar::toggle_a::1}}", "{{calc::$c*$c}}", "\n"}
VarTexts == {Concat(ps) : ps \in SeqsUpTo(VarPieces, MaxVarTags)}

\* texts of separators: at most MaxSeparatorPieces of the pieces in a row
MaxSeparatorPieces == 5
SeparatorPieces == {"{{a", "{{?", "{{", " : b", "}}"}
SeparatorTexts == {Concat(ps) : ps \in SeqsUpTo(SeparatorPieces, MaxSeparatorPieces)}

\* the state after construction: the host's documents, an empty collection, no timer
InitWith(uris, texts, table) ==
    /\ documents \in [uris -> [text : texts, languageId : LanguageIds, isClosed : {FALSE}]]
    /\ diagnosticCollection = [uri \in uris |-> NoEntry]
    /\ debounceTimer = NoTimer
    /\ regexLastIndex = [regex \in Regexes |-> 0]
    /\ registry = table
    /\ passes = [uri \in uris |-> NoPass]
    /\ formatting = NotFormatting
    /\ progress = NotScanning
    /\ turn = FALSE
    /\ previewContextMap = [previewUri \in PreviewUris |-> NoContext]
    /\ originalToPreviewMap = [uri \in uris |-> NoSet]
    /\ previewSets = [set \in PreviewUris |-> {}]
    /\ updatePreviewDebounceTimer = NoPreviewTimer
    /\ previewsShown = 0

InitOn(texts) == InitWith({Main}, texts, cbsCommandsData)

Init == InitOn(ExampleTexts)
InitBrace == InitOn(BraceTexts)
InitCommand == InitOn(CommandTexts)
InitNest == InitOn(NestTexts)
InitBlock == InitOn(BlockTexts)
InitVar == InitOn(VarTexts)
InitSeparator == InitOn(SeparatorTexts)
InitDeprecated == InitWith({Main}, DeprecatedTexts, cbsCommandsData \o DeprecatedSignatures)

Spec == Init /\ [][Next]_vars
SpecBrace == InitBrace /\ [][Next]_vars
SpecCommand == InitCommand /\ [][Next]_vars
SpecNest == InitNest /\ [][Next]_vars
SpecBlock == InitBlock /\ [][Next]_vars
SpecVar == InitVar /\ [][Next]_vars
SpecSeparator == InitSeparator /\ [][Next]_vars
SpecDeprecated == InitDeprecated /\ [][Next]_vars
InitOffset == InitOn(OffsetTexts)
SpecOffset == InitOffset /\ [][Next]_vars

\* texts of adjacent tags: a `{{min::...}}` whose parameters are at most MaxAdjacentTags
\* of the pieces in a row, and the two worked examples of a separator in a nested tag
MaxAdjacentTags == 3
AdjacentPieces == {"{{x}}", "{{a::q}}", "{{a:q}}", "z", "::"}
AdjacentTexts ==
    {"{{cmd::{{x::y}}::z}}", "{{cmd::{{a:b}}}}"} \cup
    {"{{min::" \o Concat(ps) \o "}}" : ps \in SeqsUpTo(AdjacentPieces, MaxAdjacentTags)}
InitAdjacent == InitOn(AdjacentTexts)
SpecAdjacent == InitAdjacent /\ [][Next]_vars

\* texts with a {{ that nothing terminates: at most MaxUnterminatedPieces of the pieces
\* in a row
MaxUnterminatedPieces == 3
UnterminatedPieces == {"{{#a}}", "{{/a}}", "{{", "{{#ab x", "{{/ab", "}}", "{{user}}", " "}
UnterminatedTexts == {Concat(ps) : ps \in SeqsUpTo(UnterminatedPieces, MaxUnterminatedPieces)}
InitUnterminated == InitOn(UnterminatedTexts)
SpecUnterminated == InitUnterminated /\ [][Next]_vars

\* texts for the pass taken turn by turn: at most MaxScanPieces of the pieces in a row,
\* and a tag wrapped MaxNest times or one time fewer, alone or before a stray }} and an
\* unterminated {{
MaxScanPieces == 3
ScanPieces == {"{{", "}}", "{{#a}}", "{{/a}}", "{{calc::$a$a}}", "{{getvar::x}}",
               "{{setvar::x::{{zz::y}}}}", "a\n"}
ScanTexts ==
    {Concat(ps) : ps \in SeqsUpTo(ScanPieces, MaxScanPieces)} \cup
    {Wrap("{{zz}}", depth, 1, [inner |-> "none", outer |-> "none"]) \o tail :
        depth \in {MaxNest - 1, MaxNest}, tail \in {"", "}}{{"}}
InitScan == InitOn(ScanTexts)
\* the call and the turns of the loops of the four checkers
ScanTurns ==
    \/ updateDiagnosticsCalled(Main)
    \/ checkBlockMismatchTurn(Main)
    \/ checkCommandUsageTurn(Main)
    \/ lintRecursiveTurn
    \/ checkVariableUsageTurn(Main)
    \/ checkGeneralSyntaxTurn(Main)
NextScan == ScanTurns \/ updateDiagnosticsReturns(Main)
SpecScan == InitScan /\ [][NextScan]_vars
\* a turn is taken
ScanTick == ~CheckersReturned /\ turn' = ~turn
\* the pass is one synchronous call that nothing suspends: as long as the checkers have
\* not returned, it takes its next turn
SpecScanFair == SpecScan /\ WF_turn(ScanTick)

\* the formatting of a document, with the one or the other options
InitFormat == InitOn(FormatTexts)
NextFormat == \E options \in FormatOptions : formatDocumentWithMapping(Main, options)
SpecFormat == InitFormat /\ [][NextFormat]_vars

(***************************************************************************)
(* The editor session: two documents, edits, saves and the debounce timer  *)
(***************************************************************************)
Other == "file:///b"
Uris == {Main, Other}

\* the texts the documents of the session go through
EditorTexts == {"{{user}}", "{{zz}}", "{{getvar::x}}{{ a : b }}"}

InitEditor == InitWith(Uris, EditorTexts, cbsCommandsData)

\* the documents the host has open: the only ones it shows, saves, edits and closes
OpenUris == {uri \in Uris : ~documents[uri].isClosed}

\* the events of the host, each for any of its open documents, the reopening of a
\* closed one, and the timer's callback
NextEditor ==
    \/ \E uri \in OpenUris : onDidChangeActiveTextEditor(uri)
    \/ \E uri \in OpenUris : onDidSaveTextDocument(uri)
    \/ \E uri \in OpenUris : \E newText \in EditorTexts \ {documents[uri].text} :
          onDidChangeTextDocument(uri, newText)
    \/ \E uri \in OpenUris : onDidCloseTextDocument(uri)
    \/ \E uri \in Uris : openTextDocument(uri)
    \/ debounceTimerFires

SpecEditor == InitEditor /\ [][NextEditor]_vars

\* the texts the originals of the previews go through
PreviewTexts == {"{{#if x}}", " a {{user}}"}

InitPreview == InitWith(Uris, PreviewTexts, cbsCommandsData)

\* the preview command, the edits of the originals, the closing of previews, the
\* deactivation of the extension, and the timer's callback
NextPreview ==
    \/ \E uri \in Uris : showPreviewCommand(uri)
    \/ \E uri \in Uris : \E newText \in PreviewTexts \ {documents[uri].text} :
          documentChangeListener(uri, newText)
    \/ \E previewUri \in PreviewUris : closeDocumentListener(previewUri)
    \/ updatePreviewDebounceTimerFires
    \/ deactivate

SpecPreview == InitPreview /\ [][NextPreview]_vars

(***************************************************************************)
(* Brace tokens, read independently of the scanners                        *)
(***************************************************************************)
RECURSIVE TokensFrom(_, _)
\* the {{ and }} tokens of a text from offset i on, read left to right, each an atomic
\* pair of characters: its offset and whether it opens
TokensFrom(doc, i) ==
    IF i + 2 > Len(doc) THEN <<>>
    ELSE IF Two(doc, i) \in {"{{", "}}"}
    THEN <<[pos |-> i, open |-> Two(doc, i) = "{{"]>> \o TokensFrom(doc, i + 2)
    ELSE TokensFrom(doc, i + 1)

Tokens(doc) == TokensFrom(doc, 0)

\* the {{ met minus the }} met among the first k tokens
SignedDepth(tokens, k) ==
    Cardinality({m \in 1..k : tokens[m].open}) - Cardinality({m \in 1..k : ~tokens[m].open})

\* no }} comes before its {{ and every {{ has its }}
Balanced(tokens) ==
    /\ \A k \in 1..Len(tokens) : SignedDepth(tokens, k) >= 0
    /\ SignedDepth(tokens, Len(tokens)) = 0

\* the pairs <<a, b>> of token indexes where a {{ met at depth 0 and the }} that first
\* brings the depth back to 0 stand
OutermostPairs(tokens) ==
    {pr \in (1..Len(tokens)) \X (1..Len(tokens)) :
        /\ pr[1] < pr[2]
        /\ tokens[pr[1]].open
        /\ SignedDepth(tokens, pr[1] - 1) = 0
        /\ SignedDepth(tokens, pr[2]) = 0
        /\ \A m \in pr[1]..(pr[2] - 1) : SignedDepth(tokens, m) > 0}

RECURSIVE OpenCount(_, _)
\* the {{ still open after the first k tokens, when a }} closes the latest open {{ and
\* a }} met with none open closes nothing
OpenCount(tokens, k) ==
    IF k = 0 THEN 0
    ELSE IF tokens[k].open THEN OpenCount(tokens, k - 1) + 1
    ELSE Max(OpenCount(tokens, k - 1) - 1, 0)

\* the }} tokens met while no {{ is open
StrayClosers(tokens) ==
    {k \in 1..Len(tokens) : ~tokens[k].open /\ OpenCount(tokens, k - 1) = 0}

\* the {{ tokens no later }} closes
LeftOpen(tokens) ==
    {k \in 1..Len(tokens) :
        /\ tokens[k].open
        /\ \A m \in k..Len(tokens) : OpenCount(tokens, m) >= OpenCount(tokens, k)}

\* the indexes of the diagnostics with a message, and of those that also have a range
WithMessage(diagnostics, message) ==
    {k \in 1..Len(diagnostics) : diagnostics[k].message = message}

WithMessageAt(diagnostics, message, range) ==
    {k \in WithMessage(diagnostics, message) : diagnostics[k].range = range}

UnexpectedBracesMessage == "Unexpected closing braces '}}'."
UnclosedBracesMessage == "Unclosed opening braces '{{'."

(***************************************************************************)
(* C1                                                                      *)
(***************************************************************************)
SpansAreOutermostPairs(doc, p) ==
    LET tokens == Tokens(doc)
        pairs  == OutermostPairs(tokens)
        spans  == p.command.spans
        top    == SelectSeq(p.command.calls, LAMBDA c : c.depth = 0)
    IN  Balanced(tokens) =>
          /\ Len(spans) = Cardinality(pairs)
          /\ \A pr \in pairs : \E k \in 1..Len(spans) :
                spans[k] = [start |-> tokens[pr[1]].pos, end |-> tokens[pr[2]].pos + 2]
          /\ \A k \in 1..(Len(spans) - 1) : spans[k].end <= spans[k + 1].start
          /\ Len(top) = Len(spans)
          /\ \A k \in 1..Len(spans) :
                /\ top[k].offset = spans[k].start
                /\ top[k].tag = Substring(doc, spans[k].start, spans[k].end)
          /\ WithMessage(p.syntax.diagnostics, UnexpectedBracesMessage) = {}
          /\ WithMessage(p.syntax.diagnostics, UnclosedBracesMessage) = {}

\* C1: on a text whose {{ and }} tokens are balanced, checkCommandUsage hands
\* lintRecursive, at depth 0, exactly one span for each outermost {{...}} pair, from
\* its {{ to its matching }}, in order, and checkGeneralSyntax reports neither
\* unexpected closing braces nor unclosed opening braces.
C1_BalancedSpans == pass.ran => SpansAreOutermostPairs(text, pass)

HasNestedOutermostPair(doc) ==
    /\ Balanced(Tokens(doc))
    /\ \E pr \in OutermostPairs(Tokens(doc)) : pr[2] > pr[1] + 1

\* a linted balanced text with a pair nested in an outermost pair
C1_Witness == pass.ran /\ HasNestedOutermostPair(text)

(***************************************************************************)
(* C10                                                                     *)
(***************************************************************************)
BraceErrorsAreExact(doc, diagnostics) ==
    LET tokens == Tokens(doc)
        at(k)  == OffsetRange(doc, tokens[k].pos, tokens[k].pos + 2)
    IN  /\ \A k \in StrayClosers(tokens) :
              Cardinality(WithMessageAt(diagnostics, UnexpectedBracesMessage, at(k))) = 1
        /\ Cardinality(WithMessage(diagnostics, UnexpectedBracesMessage))
              = Cardinality(StrayClosers(tokens))
        /\ \A k \in LeftOpen(tokens) :
              Cardinality(WithMessageAt(diagnostics, UnclosedBracesMessage, at(k))) = 1
        /\ Cardinality(WithMessage(diagnostics, UnclosedBracesMessage))
              = Cardinality(LeftOpen(tokens))
        /\ \A k \in WithMessage(diagnostics, UnexpectedBracesMessage)
                      \cup WithMessage(diagnostics, UnclosedBracesMessage) :
              diagnostics[k].severity = "Error"

\* C10: for any text, checkGeneralSyntax reports exactly one 'Unexpected closing
\* braces' Error, over exactly the two characters of the token, for each }} met while
\* no {{ is open, and exactly one 'Unclosed opening braces' Error for each {{ still
\* open at the end of the text, whatever malformed tags come before.
C10_BraceErrors == pass.ran => BraceErrorsAreExact(text, pass.syntax.diagnostics)

HasStrayClosersThenLeftOpen(doc) ==
    /\ Cardinality(StrayClosers(Tokens(doc))) >= 2
    /\ LeftOpen(Tokens(doc)) # {}

\* a linted text with two }} met on an empty stack and a {{ left open
C10_Witness == pass.ran /\ HasStrayClosersThenLeftOpen(text)

(***************************************************************************)
(* C2                                                                      *)
(***************************************************************************)
\* the indexes of the diagnostics with a range
WithRange(diagnostics, range) ==
    {k \in 1..Len(diagnostics) : diagnostics[k].range = range}

EventsOfKind(events, kind) == {k \in 1..Len(events) : events[k].kind = kind}

NameCheckOnPop(doc, block) ==
    \A k \in EventsOfKind(block.events, "pop") :
        LET event    == block.events[k]
            atCloser == WithRange(block.diagnostics, event.range)
            atOpener == WithRange(block.diagnostics, event.frame.range)
        IN  IF NamesAnotherBlock(doc, event)
            THEN /\ Cardinality(atCloser) = 1
                 /\ Cardinality(atOpener) = 1
                 /\ \A d \in atCloser \cup atOpener : block.diagnostics[d].severity = "Error"
            ELSE atCloser = {} /\ atOpener = {}

AnyCloserPops(block) ==
    /\ \A k \in EventsOfKind(block.events, "pop") :
          /\ WithRange(block.diagnostics, block.events[k].range) = {}
          /\ WithRange(block.diagnostics, block.events[k].frame.range) = {}
    /\ Len(block.diagnostics)
          = Cardinality(EventsOfKind(block.events, "popEmpty")) + Len(block.blockStack)

SpacedColonText == "{{ a : b }}"

InvalidSeparatorMessage == "Invalid separator ' : ' found. Use '::' instead."

WholeOf(doc) == OffsetRange(doc, 0, Len(doc))

\* C3 as stated: linting the text `{{ a : b }}` yields one diagnostic in all, the Error
\* that suggests `::`.
C3_OnlySeparatorError ==
    (pass.ran /\ text = SpacedColonText) =>
        /\ Len(diagnosticCollection[Main].diagnostics) = 1
        /\ diagnosticCollection[Main].diagnostics[1].severity = "Error"
        /\ diagnosticCollection[Main].diagnostics[1].message = InvalidSeparatorMessage

\* C3, amended: linting the text `{{ a : b }}` yields two diagnostics, both Errors over
\* the whole tag: first the command check's "Unknown command 'a '." (the content is
\* read as a prefix-style call of `a `), then the Error that suggests `::`.
C3_UnknownCommandAndSeparatorError ==
    (pass.ran /\ text = SpacedColonText) =>
        diagnosticCollection[Main].diagnostics =
            <<Diagnostic(WholeOf(text), "Unknown command 'a '.", "Error"),
              Diagnostic(WholeOf(text), InvalidSeparatorMessage, "Error")>>

\* the text `{{ a : b }}`, linted
C3_Witness ==
    pass.ran /\ text = SpacedColonText /\ diagnosticCollection[Main].present

(***************************************************************************)
(* C4 and C5                                                               *)
(***************************************************************************)
\* the expression tags of a text, {{?...}} and {{calc::...}}, each from its {{ to the
\* first }} after it
ExpressionTags(doc) ==
    {tag \in [start : 0..Len(doc), end : 0..Len(doc)] :
        /\ Two(doc, tag.start) = "{{"
        /\ \/ CharAt(doc, tag.start + 2) = "?"
           \/ ToLowerCase(Substring(doc, tag.start + 2, tag.start + 8)) = "calc::"
        /\ IndexOf(doc, "}}", tag.start) # -1
        /\ tag.end = IndexOf(doc, "}}", tag.start) + 2}

\* the offsets of the `$` of the $NAME occurrences of a tag
DollarsOf(doc, tag) ==
    {d \in tag.start..(tag.end - 1) :
        CharAt(doc, d) = "$" /\ CharAt(doc, d + 1) \in NameChars}

NameAfter(doc, d) == Substring(doc, d + 1, RunEnd(doc, d + 1, NameChars))

\* does a definition tag of the name, {{setvar::NAME:: or {{settempvar::NAME::, occur
DefinedAnywhere(doc, name) ==
    \E p \in 0..Len(doc) : \E keyword \in {"{{setvar::", "{{settempvar::"} :
        /\ ToLowerCase(Substring(doc, p, p + Len(keyword))) = keyword
        /\ Substring(doc, p + Len(keyword), p + Len(keyword) + Len(name) + 2) = name \o "::"
        /\ p + Len(keyword) + Len(name) + 2 <= Len(doc)

UndefinedMessage(name) ==
    "Variable '" \o name \o "' is used but not defined (with setvar/settempvar)."

IsReferenceAt(locations, name, range) ==
    \E k \in 1..Len(locations) :
        /\ ~locations[k].isDefinition
        /\ locations[k].name = name
        /\ locations[k].range = range

EveryDollarNameRecorded(doc, variable) ==
    \A tag \in ExpressionTags(doc) : \A d \in DollarsOf(doc, tag) :
        LET name  == NameAfter(doc, d)
            range == OffsetRange(doc, d + 1, d + 1 + Len(name))
        IN  /\ IsReferenceAt(variable.locations, name, range)
            /\ (~DefinedAnywhere(doc, name) /\ ~Includes(name, "toggle_")) =>
                   WithMessageAt(variable.diagnostics, UndefinedMessage(name), range) # {}

\* C4 as stated: every $NAME occurrence inside a {{?...}} or {{calc::...}} tag is
\* recorded by parseDocumentForVariables as a reference to NAME, for every distinct
\* NAME of the tag, and each such NAME without a definition gets its own Warning.
C4_EveryDollarNameRecorded == pass.ran => EveryDollarNameRecorded(text, pass.variable)

WarnsIffUndefined(doc, variable) ==
    /\ \A k \in 1..Len(variable.locations) :
          LET loc == variable.locations[k]
          IN  ~loc.isDefinition =>
                ((WithMessageAt(variable.diagnostics, UndefinedMessage(loc.name), loc.range)
                     # {})
                 <=> (~Includes(loc.name, "toggle_") /\ ~DefinedAnywhere(doc, loc.name)))
    /\ \A k \in 1..Len(variable.diagnostics) :
          LET d == variable.diagnostics[k]
          IN  /\ d.severity = "Warning"
              /\ \E n \in 1..Len(variable.locations) :
                    /\ ~variable.locations[n].isDefinition
                    /\ variable.locations[n].range = d.range
                    /\ d.message = UndefinedMessage(variable.locations[n].name)

\* C5: checkVariableUsage emits the 'is used but not defined' diagnostic for a
\* reference to NAME exactly when NAME holds no `toggle_` and the text holds no
\* {{setvar::NAME:: or {{settempvar::NAME:: anywhere, before or after the reference;
\* every diagnostic it emits is such a Warning.
C5_WarnsIffUndefined == pass.ran => WarnsIffUndefined(text, pass.variable)

Before(p, q) == p.line < q.line \/ (p.line = q.line /\ p.character < q.character)

\* a linted text with a reference that stands before the definition of its name, and
\* so gets no diagnostic
C5_Witness ==
    /\ pass.ran
    /\ \E r, d \in 1..Len(pass.variable.locations) :
          /\ ~pass.variable.locations[r].isDefinition
          /\ pass.variable.locations[d].isDefinition
          /\ pass.variable.locations[r].name = pass.variable.locations[d].name
          /\ Before(pass.variable.locations[r].range.start,
                    pass.variable.locations[d].range.start)
          /\ WithRange(pass.variable.diagnostics, pass.variable.locations[r].range) = {}

(***************************************************************************)
(* The tags lintRecursive is called on, read from the text                 *)
(***************************************************************************)
Braces == {"{", "}"}

\* the offsets where a {{ or }} token starts: a token lies within one run of equal
\* braces, and a run is cut into tokens from its start
TokenStarts(s) ==
    {i \in 0..(Len(s) - 2) :
        /\ CharAt(s, i) \in Braces
        /\ CharAt(s, i + 1) = CharAt(s, i)
        /\ \E j \in 0..i :
              /\ (i - j) % 2 = 0
              /\ j = 0 \/ CharAt(s, j - 1) # CharAt(s, i)
              /\ \A k \in j..i : CharAt(s, k) = CharAt(s, i)}

\* the {{ minus the }} among the tokens that start before offset i
DepthAt(s, starts, i) ==
    Cardinality({t \in starts : t < i /\ CharAt(s, t) = "{"})
      - Cardinality({t \in starts : t < i /\ CharAt(s, t) = "}"})

\* the offsets where the separator stands outside every {{...}} of s
TopLevelOccurrences(s, separator) ==
    LET starts == TokenStarts(s)
    IN  {i \in 0..(Len(s) - Len(separator)) :
            /\ SubSeq(s, i + 1, i + Len(separator)) = separator
            /\ DepthAt(s, starts, i) = 0}

\* the first of them, -1 when there is none
FirstTopLevel(s, separator) ==
    LET at == TopLevelOccurrences(s, separator)
    IN  IF at = {} THEN -1 ELSE Least(at)

ContentOf(call) == Trim(Slice2(call.tag))

IsBlockHeader(content) == StartsWith(content, "#")

IsValueCommand(content) ==
    /\ content # ""
    /\ ~StartsWith(content, "/") /\ ~StartsWith(content, "?") /\ ~StartsWith(content, "#")
    /\ content # ":else"

\* the command name of a value command: the text before the first top-level `::`,
\* before the first top-level `:` when there is no `::`, the whole content otherwise
CommandNameOf(content) ==
    LET double == FirstTopLevel(content, "::")
        single == FirstTopLevel(content, ":")
    IN  IF double # -1 THEN SubSeq(content, 1, double)
        ELSE IF single # -1 THEN SubSeq(content, 1, single)
        ELSE content

\* the registry entries a name matches: its own name in either case, and for an entry
\* that is not a prefix command its aliases
Signatures(name) ==
    {k \in 1..Len(registry) :
        \/ ToLowerCase(registry[k].name) = ToLowerCase(name)
        \/ /\ ~registry[k].isPrefixCommand
           /\ \E alias \in registry[k].aliases :
                 ToLowerCase(alias) = ToLowerCase(name)}

MarkedOptional(label) ==
    Includes(label, "optional") \/ StartsWith(label, "[") \/ EndsWith(label, "?]")

Required(signature) ==
    Cardinality({k \in 1..Len(signature.parameters) :
                   ~MarkedOptional(signature.parameters[k])})

Total(signature) == Len(signature.parameters)

AcceptsCount(signature, provided) ==
    IF Includes(signature.signatureLabel, "...")
    THEN provided >= Required(signature)
    ELSE Required(signature) <= provided /\ provided <= Total(signature)

ParsedCalls(command) ==
    {k \in 1..Len(command.calls) : command.calls[k].outcome = "parsed"}

HasUnknownCommandError(diagnostics, range, name) ==
    \E k \in WithMessageAt(diagnostics, "Unknown command '" \o name \o "'.", range) :
        diagnostics[k].severity = "Error"

HasErrorStarting(diagnostics, range, start) ==
    \E k \in WithRange(diagnostics, range) :
        diagnostics[k].severity = "Error" /\ StartsWith(diagnostics[k].message, start)

HasCountError(diagnostics, range, name, provided) ==
    HasErrorStarting(diagnostics, range,
                     "Incorrect parameter count for command '" \o name \o "'. Provided "
                       \o NumToString(provided) \o " parameter(s).")

(***************************************************************************)
(* C6                                                                      *)
(***************************************************************************)
CountErrorIffNoOverloadAccepts(command) ==
    \A k \in ParsedCalls(command) :
        LET call     == command.calls[k]
            content  == ContentOf(call)
            name     == CommandNameOf(content)
            provided == Len(call.parsed.paramsArray)
        IN  (IsValueCommand(content) /\ Signatures(name) # {}) =>
               /\ HasCountError(command.diagnostics, call.range, name, provided)
                    <=> ~\E n \in Signatures(name) :
                            AcceptsCount(registry[n], provided)
               /\ HasErrorStarting(command.diagnostics, call.range,
                                   "Incorrect parameter count")
                    => HasCountError(command.diagnostics, call.range, name, provided)

RECURSIVE PiecesBetween(_, _, _)
PiecesBetween(s, cuts, from) ==
    IF {c \in cuts : c >= from} = {} THEN <<SubSeq(s, from + 1, Len(s))>>
    ELSE LET c == Least({c \in cuts : c >= from})
         IN  <<SubSeq(s, from + 1, c)>> \o PiecesBetween(s, cuts, c + 2)

RoundTrip(call) ==
    LET content == ContentOf(call)
        parsed  == call.parsed
        double  == FirstTopLevel(content, "::")
        single  == FirstTopLevel(content, ":")
        space   == IndexOf(content, " ", 0)
    IN  /\ Join(parsed.paramsArray, "::") = parsed.paramsString
        /\ parsed.paramsString # "" =>
             parsed.paramsArray =
               PiecesBetween(parsed.paramsString,
                             TopLevelOccurrences(parsed.paramsString, "::"), 0)
        /\ IF double # -1
           THEN /\ parsed.commandName = SubSeq(content, 1, double)
                /\ parsed.paramsString = SubSeq(content, double + 3, Len(content))
           ELSE IF IsBlockHeader(content)
           THEN IF space # -1
                THEN /\ parsed.commandName = SubSeq(content, 1, space)
                     /\ parsed.paramsString = SubSeq(content, space + 2, Len(content))
                ELSE parsed.commandName = content /\ parsed.paramsString = ""
           ELSE IF single # -1
           THEN /\ parsed.commandName = SubSeq(content, 1, single)
                /\ parsed.paramsArray = <<SubSeq(content, single + 2, Len(content))>>
           ELSE parsed.commandName = content /\ parsed.paramsArray = <<>>

\* C9: for every tag lintRecursive decomposes, joining its raw parameters with `::`
\* gives back the parameter text of the tag character for character, the whitespace
\* around and inside each parameter included, and the parameters are the pieces of that
\* text between its top-level `::`; the single raw parameter of a prefix-style call is
\* the text after the first top-level `:`.
C9_RoundTrip ==
    pass.ran => \A k \in ParsedCalls(pass.command) : RoundTrip(pass.command.calls[k])

\* a linted text with a decomposed tag of two parameters or more, one of them with
\* whitespace around it and one of them holding a `::` of its own inside a nested tag
C9_Witness ==
    /\ pass.ran
    /\ \E k \in ParsedCalls(pass.command) :
          LET params == pass.command.calls[k].parsed.paramsArray
          IN  /\ Len(params) >= 2
              /\ \E n \in 1..Len(params) : Trim(params[n]) # params[n]
              /\ \E n \in 1..Len(params) : Includes(params[n], "::")

(***************************************************************************)
(* C7                                                                      *)
(***************************************************************************)
IsUnknownCommand(content) ==
    /\ IsValueCommand(content)
    /\ Signatures(CommandNameOf(content)) = {}
    /\ CommandNameOf(content) \notin
         {"setvar", "settempvar", "getvar", "gettempvar", "getglobalvar"}

UnknownErrorIffUnknown(command, call) ==
    /\ HasErrorStarting(command.diagnostics, call.range, "Unknown command")
         <=> IsUnknownCommand(ContentOf(call))
    /\ IsUnknownCommand(ContentOf(call)) =>
         HasUnknownCommandError(command.diagnostics, call.range,
                                CommandNameOf(ContentOf(call)))

BlockHeadersUnchecked(command) ==
    \A k \in 1..Len(command.calls) :
        IsBlockHeader(ContentOf(command.calls[k])) =>
            /\ ~HasErrorStarting(command.diagnostics, command.calls[k].range,
                                 "Unknown command")
            /\ ~HasErrorStarting(command.diagnostics, command.calls[k].range,
                                 "Incorrect parameter count")

\* C7 as stated: lintRecursive emits the 'Unknown command' Error for a tag exactly when
\* the tag is a value command whose name has no registry match and is not one of the
\* five variable commands; a block header gets neither that Error nor the
\* parameter-count Error.
C7_UnknownErrorIffUnknown ==
    pass.ran =>
        /\ \A k \in 1..Len(pass.command.calls) :
              UnknownErrorIffUnknown(pass.command, pass.command.calls[k])
        /\ BlockHeadersUnchecked(pass.command)

\* C7 as the code has it: the equivalence holds for the tags lintRecursive is called on
\* at depth MAX_RECURSION_DEPTH or less; a tag it is called on deeper gets no 'Unknown
\* command' Error whatever its name.  Block headers are as stated.
C7_UnknownErrorIffUnknownWithinDepth ==
    pass.ran =>
        /\ \A k \in 1..Len(pass.command.calls) :
              LET call == pass.command.calls[k]
              IN  IF call.depth <= MAX_RECURSION_DEPTH
                  THEN UnknownErrorIffUnknown(pass.command, call)
                  ELSE ~HasErrorStarting(pass.command.diagnostics, call.range,
                                         "Unknown command")
        /\ BlockHeadersUnchecked(pass.command)

\* a linted text with a block header of an unknown name and with parameters, with an
\* unknown value command that gets its Error, and with an unknown value command deeper
\* than MAX_RECURSION_DEPTH that gets none
C7_Witness ==
    /\ pass.ran
    /\ \E b, u, d \in 1..Len(pass.command.calls) :
          /\ IsBlockHeader(ContentOf(pass.command.calls[b]))
          /\ Signatures(pass.command.calls[b].parsed.commandName) = {}
          /\ pass.command.calls[b].parsed.paramsArray # <<>>
          /\ pass.command.calls[u].depth <= MAX_RECURSION_DEPTH
          /\ IsUnknownCommand(ContentOf(pass.command.calls[u]))
          /\ pass.command.calls[d].depth > MAX_RECURSION_DEPTH
          /\ IsUnknownCommand(ContentOf(pass.command.calls[d]))

(***************************************************************************)
(* C8                                                                      *)
(***************************************************************************)
ExcessiveNestingMessage(depth) ==
    "Excessive tag nesting depth (" \o NumToString(depth)
      \o "). Linting stopped for this branch."

IsWholeTag(param) ==
    StartsWith(param, "{{") /\ EndsWith(param, "}}") /\ Trim(Slice2(param)) # ""

\* the unknown-command and the parameter-count check of a tag ran
ValidatedNormally(command, call) ==
    LET content  == ContentOf(call)
        name     == CommandNameOf(content)
        provided == Len(call.parsed.paramsArray)
    IN  /\ call.outcome # "excessive"
        /\ \A k \in WithRange(command.diagnostics, call.range) :
              ~StartsWith(command.diagnostics[k].message, "Excessive tag nesting depth")
        /\ IsUnknownCommand(content) <=>
             HasUnknownCommandError(command.diagnostics, call.range, name)
        /\ (IsValueCommand(content) /\ Signatures(name) # {}) =>
             (HasCountError(command.diagnostics, call.range, name, provided)
                <=> ~\E n \in Signatures(name) : AcceptsCount(registry[n], provided))

\* the tag gets the nesting Warning and nothing else
StoppedWithOneWarning(command, call) ==
    /\ call.outcome = "excessive"
    /\ Cardinality(WithRange(command.diagnostics, call.range)) = 1
    /\ \A k \in WithRange(command.diagnostics, call.range) :
          /\ command.diagnostics[k].severity = "Warning"
          /\ command.diagnostics[k].message = ExcessiveNestingMessage(call.depth)

\* lintRecursive is called on every top-level tag at depth 0 and, one level deeper, on
\* every parameter of a decomposed tag that is a tag as a whole
DescentIsComplete(doc, command) ==
    /\ LET starts == TokenStarts(doc)
       IN  \A a \in starts :
             (CharAt(doc, a) = "{" /\ DepthAt(doc, starts, a) = 0
                /\ \E b \in starts :
                      b > a /\ CharAt(doc, b) = "}" /\ DepthAt(doc, starts, b + 2) = 0) =>
                 \E k \in 1..Len(command.calls) :
                     command.calls[k].depth = 0 /\ command.calls[k].offset = a
    /\ \A k \in ParsedCalls(command) : \A n \in 1..Len(command.calls[k].parsed.paramsArray) :
          LET call  == command.calls[k]
              param == call.parsed.paramsArray[n]
          IN  IsWholeTag(Trim(param)) =>
                Cardinality({m \in 1..Len(command.calls) :
                               /\ command.calls[m].depth = call.depth + 1
                               /\ command.calls[m].tag = Trim(param)
                               /\ command.calls[m].offset >= call.offset
                               /\ command.calls[m].offset + Len(param)
                                    <= call.offset + Len(call.tag)})
                  >= Cardinality({i \in 1..Len(call.parsed.paramsArray) :
                                    call.parsed.paramsArray[i] = param})

\* C8: with the top-level tag at depth 0, a tag at depth MAX_RECURSION_DEPTH or less,
\* depth MAX_RECURSION_DEPTH itself included, is validated normally and gets no nesting
\* Warning; a parameter tag one level deeper gets one 'Excessive tag nesting depth'
\* Warning and no other diagnostic, and lintRecursive is called on nothing below it;
\* the parameters beside it and the other top-level tags are still visited.
C8_NestingBoundary ==
    pass.ran =>
        /\ \A k \in 1..Len(pass.command.calls) :
              LET call == pass.command.calls[k]
              IN  /\ call.depth <= MAX_RECURSION_DEPTH + 1
                  /\ IF call.depth <= MAX_RECURSION_DEPTH
                     THEN ValidatedNormally(pass.command, call)
                     ELSE StoppedWithOneWarning(pass.command, call)
        /\ DescentIsComplete(text, pass.command)

\* a linted text with a tag at depth MAX_RECURSION_DEPTH that gets a parameter-count
\* Error, a parameter of it one level deeper that gets the Warning, tags inside the
\* text deeper still, and a top-level tag after the whole that gets its Error
C8_Witness ==
    /\ pass.ran
    /\ \E a, b, c \in 1..Len(pass.command.calls) :
          /\ pass.command.calls[a].depth = MAX_RECURSION_DEPTH
          /\ HasErrorStarting(pass.command.diagnostics, pass.command.calls[a].range,
                              "Incorrect parameter count")
          /\ pass.command.calls[b].depth = MAX_RECURSION_DEPTH + 1
          /\ pass.command.calls[b].offset > pass.command.calls[a].offset
          /\ pass.command.calls[c].depth = 0
          /\ pass.command.calls[c].offset > pass.command.calls[b].offset
          /\ HasErrorStarting(pass.command.diagnostics, pass.command.calls[c].range,
                              "Unknown command")


(***************************************************************************)
(* C11                                                                     *)
(***************************************************************************)
\* the pairs <<a, b>> of token indexes where a {{ and the }} that closes it stand, when
\* a }} closes the latest {{ still open
MatchedPairs(tokens) ==
    {pr \in (1..Len(tokens)) \X (1..Len(tokens)) :
        /\ pr[1] < pr[2]
        /\ tokens[pr[1]].open
        /\ ~tokens[pr[2]].open
        /\ OpenCount(tokens, pr[2] - 1) = OpenCount(tokens, pr[1])
        /\ \A m \in pr[1]..(pr[2] - 1) : OpenCount(tokens, m) >= OpenCount(tokens, pr[1])}

\* the offsets where a whitespace, a colon and a whitespace stand in a row
SpacedColons(doc) ==
    {i \in 0..(Len(doc) - 3) :
        /\ CharAt(doc, i) \in WhiteSpace
        /\ CharAt(doc, i + 1) = ":"
        /\ CharAt(doc, i + 2) \in WhiteSpace}

\* the three characters from i on lie between the braces of the pair
InsidePair(i, tokens, pr) ==
    tokens[pr[1]].pos + 2 <= i /\ i + 3 <= tokens[pr[2]].pos

\* they lie in the content of the pair's tag, which is what the braces hold without
\* the whitespace at its ends
InsideContent(doc, i, tokens, pr) ==
    /\ \E m \in (tokens[pr[1]].pos + 2)..(i - 1) : CharAt(doc, m) \notin WhiteSpace
    /\ \E m \in (i + 3)..(tokens[pr[2]].pos - 1) : CharAt(doc, m) \notin WhiteSpace

\* the tag of the pair is a `?`-prefixed expression tag
IsExpressionPair(doc, tokens, pr) ==
    StartsWith(Trim(Substring(doc, tokens[pr[1]].pos + 2, tokens[pr[2]].pos)), "?")

\* the tag of the pair holds a ` : ` that no expression tag holds
HoldsSeparatorOutsideExpressions(doc, tokens, pr) ==
    \E i \in SpacedColons(doc) :
        /\ InsideContent(doc, i, tokens, pr)
        /\ \A q \in MatchedPairs(tokens) :
              IsExpressionPair(doc, tokens, q) => ~InsidePair(i, tokens, q)

PairRange(doc, tokens, pr) == OffsetRange(doc, tokens[pr[1]].pos, tokens[pr[2]].pos + 2)

SeparatorErrorsOutsideExpressions(doc, diagnostics) ==
    /\ \A pr \in MatchedPairs(Tokens(doc)) :
          WithMessageAt(diagnostics, InvalidSeparatorMessage,
                        PairRange(doc, Tokens(doc), pr)) # {}
            <=> HoldsSeparatorOutsideExpressions(doc, Tokens(doc), pr)
    /\ \A k \in WithMessage(diagnostics, InvalidSeparatorMessage) :
          \E pr \in MatchedPairs(Tokens(doc)) :
              diagnostics[k].range = PairRange(doc, Tokens(doc), pr)

\* C11: checkGeneralSyntax reports the invalid-separator Error on a closed tag exactly
\* when the tag holds a whitespace-colon-whitespace sequence that lies in no
\* `?`-prefixed expression tag: a ` : ` inside a `{{? ...}}` tag causes the Error
\* neither on that tag nor on a tag around it, and a ` : ` in a closed tag that is
\* not a `?` tag always causes it.
C11_SeparatorErrorsOutsideExpressions ==
    pass.ran => SeparatorErrorsOutsideExpressions(text, pass.syntax.diagnostics)


(***************************************************************************)
(* Block tags, read independently of checkBlockMismatch                    *)
(***************************************************************************)
\* the }} that closes the {{ at token k of a balanced text
CloserOf(tokens, k) ==
    Least({m \in (k + 1)..Len(tokens) : SignedDepth(tokens, m) = SignedDepth(tokens, k - 1)})

\* what a top-level tag is for the block stack: an opener `{{#name ...}}`, a closer
\* `{{/...}}`, or neither
BlockMarkOf(fullTag, content, offset) ==
    IF StartsWith(content, "#") /\ CharAt(content, 1) \in BlockNameChars
    THEN <<[open |-> TRUE, offset |-> offset, end |-> offset + Len(fullTag),
            tag |-> fullTag, bare |-> FALSE,
            name |-> Substring(content, 1, RunEnd(content, 1, BlockNameChars))]>>
    ELSE IF StartsWith(content, "/")
    THEN <<[open |-> FALSE, offset |-> offset, end |-> offset + Len(fullTag),
            tag |-> fullTag, bare |-> content = "/",
            name |-> SubstringFrom(content, 1)]>>
    ELSE <<>>

RECURSIVE BlockMarksFrom(_, _, _)
\* the openers and closers among the top-level tags of a balanced text, from token k on
BlockMarksFrom(doc, tokens, k) ==
    IF k > Len(tokens) THEN <<>>
    ELSE LET b == CloserOf(tokens, k)
         IN  BlockMarkOf(Substring(doc, tokens[k].pos, tokens[b].pos + 2),
                         Trim(Substring(doc, tokens[k].pos + 2, tokens[b].pos)),
                         tokens[k].pos)
               \o BlockMarksFrom(doc, tokens, b + 1)

BlockMarks(doc) == BlockMarksFrom(doc, Tokens(doc), 1)

\* the j-th least element of a set of numbers
Nth(S, j) == CHOOSE x \in S : Cardinality({y \in S : y <= x}) = j

UnexpectedClosingMessage(fullTag) ==
    "Unexpected closing tag '" \o fullTag \o "'. No matching opening tag found."

UnclosedBlockMessage(name, line) ==
    "Unclosed block tag '{{#" \o name \o "}}' on line " \o NumToString(line + 1)
        \o ". No matching closing tag found."

\* the indexes of the diagnostics whose message starts with a prefix
WithMessagePrefix(diagnostics, prefix) ==
    {k \in 1..Len(diagnostics) : StartsWith(diagnostics[k].message, prefix)}

(***************************************************************************)
(* C12                                                                     *)
(***************************************************************************)
\* one 'Unexpected closing tag' Error for each closer met on an empty stack, in the
\* order of the closers, and no other
UnexpectedExactlyOnEmptyStack(marks, diagnostics) ==
    LET strays     == StrayClosers(marks)
        unexpected == WithMessagePrefix(diagnostics, "Unexpected closing tag")
    IN  /\ Cardinality(unexpected) = Cardinality(strays)
        /\ \A j \in 1..Cardinality(strays) :
              /\ diagnostics[Nth(unexpected, j)].message
                    = UnexpectedClosingMessage(marks[Nth(strays, j)].tag)
              /\ diagnostics[Nth(unexpected, j)].severity = "Error"

\* each closer met on a non-empty stack pops the frame of the latest opener still
\* open, and the frames left at the end are those of the openers nothing closed
PopsExactlyTheTop(marks, block) ==
    LET pops   == EventsOfKind(block.events, "pop")
        pushes == EventsOfKind(block.events, "push")
        left   == LeftOpen(marks)
    IN  /\ Cardinality(pops) = Cardinality(MatchedPairs(marks))
        /\ \A pr \in MatchedPairs(marks) :
              \E k \in pops, j \in pushes :
                  /\ block.events[k].offset = marks[pr[2]].offset
                  /\ block.events[j].offset = marks[pr[1]].offset
                  /\ block.events[k].frame = block.events[j].frame
                  /\ block.events[k].frame.name = marks[pr[1]].name
                  /\ block.events[k].depthBefore = OpenCount(marks, pr[2] - 1)
        /\ Len(block.blockStack) = Cardinality(left)
        /\ \A j \in 1..Cardinality(left) :
              block.blockStack[j].name = marks[Nth(left, j)].name

\* a closer that pops a frame leaves no diagnostic, the bare `{{/}}` included
PopsAreSilent(marks, block) ==
    /\ \A k \in EventsOfKind(block.events, "pop") :
          /\ WithRange(block.diagnostics, block.events[k].range) = {}
          /\ WithRange(block.diagnostics, block.events[k].frame.range) = {}
    /\ Len(block.diagnostics)
          = Cardinality(StrayClosers(marks)) + Cardinality(LeftOpen(marks))

ClosersPopOrAreUnexpected(doc, block) ==
    Balanced(Tokens(doc)) =>
        /\ UnexpectedExactlyOnEmptyStack(BlockMarks(doc), block.diagnostics)
        /\ PopsExactlyTheTop(BlockMarks(doc), block)
        /\ PopsAreSilent(BlockMarks(doc), block)

\* C12: checkBlockMismatch emits the 'Unexpected closing tag' Error exactly when a
\* closing tag is met while the block stack is empty; a closing tag met with a
\* non-empty stack pops exactly the top frame, and `{{/}}` without a name pops
\* whichever frame is on top without any diagnostic.
C12_ClosersPopOrAreUnexpected == pass.ran => ClosersPopOrAreUnexpected(text, pass.block)

\* a linted text where a bare {{/}} pops a frame with another frame under it, and a
\* closer is met on an empty stack
C12_Witness ==
    /\ pass.ran
    /\ Balanced(Tokens(text))
    /\ StrayClosers(BlockMarks(text)) # {}
    /\ \E pr \in MatchedPairs(BlockMarks(text)) :
          BlockMarks(text)[pr[2]].bare /\ OpenCount(BlockMarks(text), pr[2] - 1) = 2


(***************************************************************************)
(* C13                                                                     *)
(***************************************************************************)
\* one 'Unclosed block tag' Error for each opener nothing closed, in the order of the
\* openers, over the opener's tag, and no other
UnclosedExactlyForLeftFrames(doc, marks, diagnostics) ==
    LET left     == LeftOpen(marks)
        unclosed == WithMessagePrefix(diagnostics, "Unclosed block tag")
    IN  /\ Cardinality(unclosed) = Cardinality(left)
        /\ \A j \in 1..Cardinality(left) :
              /\ StartsWith(diagnostics[Nth(unclosed, j)].message,
                            "Unclosed block tag '{{#" \o marks[Nth(left, j)].name \o "}}'")
              /\ diagnostics[Nth(unclosed, j)].severity = "Error"
              /\ diagnostics[Nth(unclosed, j)].range
                    = OffsetRange(doc, marks[Nth(left, j)].offset, marks[Nth(left, j)].end)

\* openers and closers properly nested and paired
WellFormedBlocks(marks) == StrayClosers(marks) = {} /\ LeftOpen(marks) = {}

UnclosedAtEnd(doc, block) ==
    Balanced(Tokens(doc)) =>
        /\ UnclosedExactlyForLeftFrames(doc, BlockMarks(doc), block.diagnostics)
        /\ Len(block.blockStack) = Cardinality(LeftOpen(BlockMarks(doc)))
        /\ WellFormedBlocks(BlockMarks(doc)) =>
              block.blockStack = <<>> /\ block.diagnostics = <<>>

\* C13: at the end of the document checkBlockMismatch emits exactly one 'Unclosed
\* block tag' Error for each frame still on the block stack, ranged at that frame's
\* opener, and none otherwise; when the openers and closers of the document are
\* properly nested and paired the stack is empty at the end and there is no block Error.
C13_UnclosedAtEnd == pass.ran => UnclosedAtEnd(text, pass.block)


(***************************************************************************)
(* C14                                                                     *)
(***************************************************************************)
ReplaceWithOneParameter == "{{replace::a}}"

ReplaceCountMessage ==
    "Incorrect parameter count for command 'replace'. Provided 1 parameter(s). "
        \o "Valid signature(s): {{replace::A::B::C}}"

\* C14: linting a document whose whole text is `{{replace::a}}` yields exactly one
\* diagnostic, an Error over the tag with the message "Incorrect parameter count for
\* command 'replace'. Provided 1 parameter(s). Valid signature(s): {{replace::A::B::C}}".
C14_ReplaceWithOneParameter ==
    (pass.ran /\ text = ReplaceWithOneParameter) =>
        diagnosticCollection[Main].diagnostics
            = <<Diagnostic(OffsetRange(text, 0, Len(text)), ReplaceCountMessage, "Error")>>

\* the document `{{replace::a}}` has been linted, against a registry where `replace`
\* has one signature of three required parameters
C14_Witness ==
    /\ pass.ran
    /\ text = ReplaceWithOneParameter
    /\ diagnosticCollection[Main].present
    /\ Len(findAllCommandInfo("replace")) = 1
    /\ requiredParams(findAllCommandInfo("replace")[1]) = 3

(***************************************************************************)
(* C15                                                                     *)
(***************************************************************************)
\* the name of a block header: the text before the first top-level `::`, before the
\* first space when there is no `::`, the whole content otherwise
HeaderNameOf(content) ==
    LET double == FirstTopLevel(content, "::")
        space  == IndexOf(content, " ", 0)
    IN  IF double # -1 THEN SubSeq(content, 1, double)
        ELSE IF space # -1 THEN SubSeq(content, 1, space)
        ELSE content

NamesACommand(content) == IsValueCommand(content) \/ IsBlockHeader(content)

TagNameOf(content) ==
    IF IsBlockHeader(content) THEN HeaderNameOf(content) ELSE CommandNameOf(content)

DeprecatedMatches(name) == {n \in Signatures(name) : registry[n].deprecated.present}

MatchesDeprecated(content) ==
    NamesACommand(content) /\ DeprecatedMatches(TagNameOf(content)) # {}

\* the warning for a tag: that of the first deprecated signature its name matches
DeprecationMessage(content) ==
    LET name   == TagNameOf(content)
        first  == CHOOSE n \in DeprecatedMatches(name) :
                      \A m \in DeprecatedMatches(name) : n <= m
        marker == registry[first].deprecated
    IN  (IF IsBlockHeader(content) THEN "Block" ELSE "Command")
            \o " '" \o name \o "' is deprecated. " \o marker.message
            \o (IF marker.replacement # "" THEN " Use '" \o marker.replacement \o "' instead."
                ELSE "")

DeprecationWarnings(diagnostics) ==
    {k \in 1..Len(diagnostics) :
        /\ diagnostics[k].severity = "Warning"
        /\ Includes(diagnostics[k].message, "' is deprecated. ")}

DeprecationWarningsAt(diagnostics, range) ==
    DeprecationWarnings(diagnostics) \cap WithRange(diagnostics, range)

\* exactly one deprecation Warning with the message of the first deprecated signature
\* for a tag whose name matches one, none for any other tag
WarnedIffDeprecated(command, call) ==
    IF MatchesDeprecated(ContentOf(call))
    THEN /\ Cardinality(DeprecationWarningsAt(command.diagnostics, call.range)) = 1
         /\ \A k \in DeprecationWarningsAt(command.diagnostics, call.range) :
               command.diagnostics[k].message = DeprecationMessage(ContentOf(call))
    ELSE DeprecationWarningsAt(command.diagnostics, call.range) = {}

\* C15 as stated: every tag lintRecursive is called on whose command name (of a value
\* command or of a block header) matches a registry signature with a `deprecated`
\* marker gets a deprecation Warning, whether its parameter count is valid or not, and
\* no tag gets more than one.
C15_DeprecationWarning ==
    pass.ran =>
        \A k \in 1..Len(pass.command.calls) :
            WarnedIffDeprecated(pass.command, pass.command.calls[k])

\* C15 as the code has it: the tags lintRecursive is called on at depth
\* MAX_RECURSION_DEPTH or less get exactly one deprecation Warning when their name
\* matches a deprecated signature, whether the parameter count is valid or not, and none
\* otherwise; a tag it is called on deeper gets none whatever its name; the pass emits no
\* other deprecation Warning.
C15_DeprecationWarningWithinDepth ==
    pass.ran =>
        /\ \A k \in 1..Len(pass.command.calls) :
              LET call == pass.command.calls[k]
              IN  IF call.depth <= MAX_RECURSION_DEPTH
                  THEN WarnedIffDeprecated(pass.command, call)
                  ELSE DeprecationWarningsAt(pass.command.diagnostics, call.range) = {}
        /\ Cardinality(DeprecationWarnings(pass.command.diagnostics))
              = Cardinality({k \in 1..Len(pass.command.calls) :
                               /\ pass.command.calls[k].depth <= MAX_RECURSION_DEPTH
                               /\ MatchesDeprecated(ContentOf(pass.command.calls[k]))})

\* a linted text where a tag of a deprecated name has its Warning beside a
\* parameter-count Error, and a tag of a deprecated name deeper than
\* MAX_RECURSION_DEPTH has none
C15_Witness ==
    /\ pass.ran
    /\ \E i, d \in 1..Len(pass.command.calls) :
          /\ pass.command.calls[i].depth <= MAX_RECURSION_DEPTH
          /\ MatchesDeprecated(ContentOf(pass.command.calls[i]))
          /\ HasErrorStarting(pass.command.diagnostics, pass.command.calls[i].range,
                              "Incorrect parameter count")
          /\ DeprecationWarningsAt(pass.command.diagnostics,
                                   pass.command.calls[i].range) # {}
          /\ pass.command.calls[d].depth > MAX_RECURSION_DEPTH
          /\ MatchesDeprecated(ContentOf(pass.command.calls[d]))

(***************************************************************************)
(* C16                                                                     *)
(***************************************************************************)
\* the entry of a linted document is what its last pass computed
HoldsItsPass(uri) == diagnosticCollection[uri] = EntryOf(passes[uri])

\* two documents whose last passes read the same text hold the same list
SameTextSameDiagnostics ==
    \A u, v \in DOMAIN documents :
        (passes[u].ran /\ passes[v].ran /\ passes[u].text = passes[v].text) =>
            diagnosticCollection[u].diagnostics = diagnosticCollection[v].diagnostics

\* a step that lints a document over the text of its last pass leaves its list as it was
SameTextAgain ==
    \A u \in DOMAIN documents :
        (passes[u].ran /\ passes'[u].ran /\ passes'[u].text = passes[u].text) =>
            diagnosticCollection'[u].diagnostics = diagnosticCollection[u].diagnostics

\* every regex stands at lastIndex 0 between the passes
RegexesRewound == \A regex \in Regexes : regexLastIndex[regex] = 0

HasPendingTimer(uri) == debounceTimer.pending /\ debounceTimer.uri = uri

\* this step is the callback of the timer: the document is linted over its text
TimerFiredFor(uri) ==
    /\ debounceTimer' = [debounceTimer EXCEPT !.pending = FALSE]
    /\ documents' = documents
    /\ isCbsDocument(documents[uri]) =>
          /\ passes'[uri] = LintPass(documents[uri].text)
          /\ diagnosticCollection'[uri] = EntryOf(passes'[uri])

\* a change of a cbs document leaves a timer pending for it
ChangeStartsTimer ==
    \A uri \in DOMAIN documents :
        (documents'[uri].text # documents[uri].text /\ isCbsDocument(documents[uri])) =>
            HasPendingTimer(uri)'

\* the pending timer of a document ends only by a later change of the same document
\* taking its place or by its callback linting the document
TimerEndsByReplacementOrPass ==
    \A uri \in DOMAIN documents :
        HasPendingTimer(uri) => (HasPendingTimer(uri)' \/ TimerFiredFor(uri))

\* C17: each document has its own pending re-lint timer, at most one; a change of a cbs
\* document cancels the pending timer of that document and starts a new one, so the
\* edits of a burst end in one lint pass of the document, after the last of them.
C17_TimerPerDocument == [][ChangeStartsTimer /\ TimerEndsByReplacementOrPass]_vars

(***************************************************************************)
(* C18                                                                     *)
(***************************************************************************)
\* the outputs of the four checkers for a text, block, command, variable, syntax
ComputedDiagnostics(doc) ==
    checkBlockMismatch(doc).diagnostics \o checkCommandUsage(doc).diagnostics
        \o checkVariableUsage(doc).diagnostics \o checkGeneralSyntax(doc)

\* this step ran a pass over the document
PassRan(uri) == passes'[uri].ran /\ passes'[uri] # passes[uri]

\* a pass sets the entry of its document to what it computed and no other entry
PassSetsOwnEntryOnly ==
    \A uri \in DOMAIN documents :
        PassRan(uri) =>
            /\ isCbsDocument(documents[uri])
            /\ diagnosticCollection'[uri] =
                   [present |-> TRUE, diagnostics |-> ComputedDiagnostics(documents[uri].text)]
            /\ \A other \in DOMAIN documents \ {uri} :
                   diagnosticCollection'[other] = diagnosticCollection[other]

\* an entry changes only by a pass over its document or by being deleted
EntryChangesByPassOrDelete ==
    \A uri \in DOMAIN documents :
        diagnosticCollection'[uri] # diagnosticCollection[uri] =>
            PassRan(uri) \/ diagnosticCollection'[uri] = NoEntry

\* a document that is not a cbs document has no pass and no entry
NothingForOtherLanguages ==
    \A uri \in DOMAIN documents :
        ~isCbsDocument(documents[uri]) =>
            ~passes[uri].ran /\ diagnosticCollection[uri] = NoEntry

\* C18: updateDiagnostics(doc) sets the entry of doc to exactly the diagnostics of this
\* pass, the outputs of the block, command, variable and syntax checkers in that order
\* with nothing of the entry it replaces, and leaves every other entry as it was; for a
\* document that is not a cbs document it changes nothing.
C18_UpdateDiagnosticsFrame ==
    /\ []NothingForOtherLanguages
    /\ [][PassSetsOwnEntryOnly /\ EntryChangesByPassOrDelete]_vars

\* both documents hold an entry, with different lists, each of its own text: the pass
\* of the one kept the entry of the other; the entry of Main replaced one of another text
C18_Witness ==
    /\ diagnosticCollection[Main].present /\ diagnosticCollection[Other].present
    /\ diagnosticCollection[Main].diagnostics # diagnosticCollection[Other].diagnostics
    /\ diagnosticCollection[Main].diagnostics # <<>>
    /\ diagnosticCollection[Other].diagnostics # <<>>
    /\ HoldsItsPass(Main) /\ HoldsItsPass(Other)
    /\ passes[Main].text = documents[Main].text
    /\ debounceTimer.set /\ debounceTimer.uri = Main /\ ~debounceTimer.pending

(***************************************************************************)
(* C19                                                                     *)
(***************************************************************************)
\* the line, counted from 0, that holds an offset
LineOfOffset(doc, offset) == CountFrom(doc, "\n", 0, offset)

\* the openers less the closers among the marks m..c
OpenDepth(marks, m, c) ==
    Cardinality({k \in m..c : marks[k].open}) - Cardinality({k \in m..c : ~marks[k].open})

\* the closers that bring the nesting back to where it was before the opener m
ClosersMatching(marks, m) == {c \in (m + 1)..Len(marks) : OpenDepth(marks, m, c) = 0}

\* the lines strictly between a `{{#pure_display}}` opener and its matching closing tag
PureDisplayLines(doc) ==
    LET marks == BlockMarks(doc)
    IN  {line \in 0..CountNewlines(doc) :
            \E m \in 1..Len(marks) :
                /\ marks[m].open /\ marks[m].name = "pure_display"
                /\ ClosersMatching(marks, m) # {}
                /\ LineOfOffset(doc, marks[m].offset) < line
                /\ line < LineOfOffset(doc, marks[Least(ClosersMatching(marks, m))].offset)}

\* formatLine left the trimmed content of the line as it was, on one line
ContentKept(formatted) ==
    /\ formatted.result.formattedLineCount = 1
    /\ ~formatted.result.formattedText.null =>
          /\ Trim(formatted.result.formattedText.text) = Trim(formatted.text)
          /\ ~Includes(formatted.result.formattedText.text, "\n")

\* C19: for every line strictly between a `{{#pure_display}}` opener and its matching
\* closing tag, formatLine leaves the trimmed content of the line unchanged and does not
\* split it into several lines, also when other blocks are opened and closed inside the
\* pure block.
C19_PureDisplayRespected ==
    formatting.ran =>
        \A line \in PureDisplayLines(text) : ContentKept(formatting.lines[line + 1])

(***************************************************************************)
(* C20                                                                     *)
(***************************************************************************)
\* the number of white-space characters a string begins with
LeadingWhiteSpace(s) == RunEnd(s, 0, WhiteSpace)

\* the call that recursed into call k: the nearest one before it, one level up
ParentOf(calls, k) ==
    CHOOSE p \in 1..(k - 1) :
        /\ calls[p].depth = calls[k].depth - 1
        /\ \A j \in (p + 1)..(k - 1) : calls[j].depth # calls[k].depth - 1

\* the raw parameters lintRecursive recurses into: those that are a tag when trimmed
RecursedParams(paramsArray) ==
    {i \in 1..Len(paramsArray) :
        /\ StartsWith(Trim(paramsArray[i]), "{{")
        /\ EndsWith(Trim(paramsArray[i]), "}}")
        /\ Trim(Slice2(Trim(paramsArray[i]))) # ""}

\* the index, among the raw parameters of its parent, of the parameter call k is for
ParamIndexOf(calls, k) ==
    Nth(RecursedParams(calls[ParentOf(calls, k)].parsed.paramsArray),
        Cardinality({j \in (ParentOf(calls, k) + 1)..k : calls[j].depth = calls[k].depth}))

\* the raw parameter call k is for
RawParamOf(calls, k) == calls[ParentOf(calls, k)].parsed.paramsArray[ParamIndexOf(calls, k)]

\* where the raw parameters of a decomposed tag begin in the tag: after the `{{`, the
\* blanks before the content, the name and the separator that ends the name
ParamsRegionStart(call) ==
    2 + LeadingWhiteSpace(Slice2(call.tag)) + Len(call.parsed.commandName)
      + (IF FirstTopLevel(ContentOf(call), "::") # -1 THEN 2 ELSE 1)

RECURSIVE ParamOffsetInRegion(_, _)
\* where the i-th raw parameter begins among the parameters: each one before it and
\* the `::` after it come first
ParamOffsetInRegion(paramsArray, i) ==
    IF i = 1 THEN 0
    ELSE ParamOffsetInRegion(paramsArray, i - 1) + Len(paramsArray[i - 1]) + 2

RECURSIVE RealTagStart(_, _)
\* the offset in the document where the raw parameter of call k begins
RealParamStart(calls, k) ==
    RealTagStart(calls, ParentOf(calls, k)) + ParamsRegionStart(calls[ParentOf(calls, k)])
      + ParamOffsetInRegion(calls[ParentOf(calls, k)].parsed.paramsArray,
                            ParamIndexOf(calls, k))

\* the offset in the document where the tag of call k begins: that of the scan for a
\* top-level tag, that of the raw parameter and its leading blanks for a nested one
RealTagStart(calls, k) ==
    IF calls[k].depth = 0 THEN calls[k].offset
    ELSE RealParamStart(calls, k) + LeadingWhiteSpace(RawParamOf(calls, k))

\* the document holds the raw parameter of call k at the offset worked out for it
ParamStandsAtRealStart(doc, calls, k) ==
    Substring(doc, RealParamStart(calls, k),
              RealParamStart(calls, k) + Len(RawParamOf(calls, k))) = RawParamOf(calls, k)

NestedCalls(calls) ==
    {k \in 1..Len(calls) : calls[k].depth >= 1 /\ calls[k].depth <= MAX_RECURSION_DEPTH}

\* C20: for every parameter tag lintRecursive recurses into, at depth 1 to 10, the range
\* its diagnostics get starts at the offset of the document where the parameter begins,
\* also when the parameter has a blank before its `{{` and when its text stands earlier
\* in the same tag.
C20_ParameterRangeStart ==
    pass.ran =>
        \A k \in NestedCalls(pass.command.calls) :
            /\ ParamStandsAtRealStart(text, pass.command.calls, k)
            /\ pass.command.calls[k].range.start
                  = PositionAt(text, RealParamStart(pass.command.calls, k))

(***************************************************************************)
(* C21                                                                     *)
(***************************************************************************)
\* the offset i of a content lies in a tag nested in it: after a {{ of the content and
\* before the }} that closes it
InsideNestedTag(content, i) ==
    \E pr \in MatchedPairs(Tokens(content)) :
        Tokens(content)[pr[1]].pos < i /\ i < Tokens(content)[pr[2]].pos

\* where the raw parameters of a decomposed tag begin in its content
ParamsStartInContent(call) == Len(ContentOf(call)) - Len(call.parsed.paramsString)

\* the offsets of the content where the decomposition took a `::` or a `:` for a
\* separator: the one that ends the name, and the `::` between two raw parameters
SeparatorsTaken(call) ==
    {Len(call.parsed.commandName) :
        x \in {y \in {1} : \/ call.parsed.isPrefixCommand
                            \/ Two(ContentOf(call), Len(call.parsed.commandName)) = "::"}}
    \cup
    {ParamsStartInContent(call) + ParamOffsetInRegion(call.parsed.paramsArray, i) - 2 :
        i \in {j \in 2..Len(call.parsed.paramsArray) : ~call.parsed.isPrefixCommand}}

\* the decomposed calls of the pass whose tag is the given text
CallsOn(command, tag) == {k \in ParsedCalls(command) : command.calls[k].tag = tag}

\* C21: a separator inside a nested tag is never taken for a separator of the tag
\* around it: every `::` or `:` by which lintRecursive decomposes a tag stands outside
\* every {{...}} of the tag's content, `{{cmd::{{x::y}}::z}}` has exactly the two raw
\* parameters `{{x::y}}` and `z`, and `{{cmd::{{a:b}}}}` is not a prefix-style call.
C21_SeparatorsAtTopLevel ==
    pass.ran =>
        /\ \A k \in ParsedCalls(pass.command) :
              \A i \in SeparatorsTaken(pass.command.calls[k]) :
                  ~InsideNestedTag(ContentOf(pass.command.calls[k]), i)
        /\ \A k \in CallsOn(pass.command, "{{cmd::{{x::y}}::z}}") :
              pass.command.calls[k].parsed.paramsArray = <<"{{x::y}}", "z">>
        /\ \A k \in CallsOn(pass.command, "{{cmd::{{a:b}}}}") :
              /\ ~pass.command.calls[k].parsed.isPrefixCommand
              /\ pass.command.calls[k].parsed.paramsArray = <<"{{a:b}}">>

\* the tags of the document itself, found by the scan of checkCommandUsage
TopLevelCalls(command) == {k \in ParsedCalls(command) : command.calls[k].depth = 0}

\* the same of the tags of the document itself, which lintRecursive is called on at
\* depth 0
C21_TopLevelTagsOnly ==
    pass.ran =>
        \A k \in TopLevelCalls(pass.command) :
            \A i \in SeparatorsTaken(pass.command.calls[k]) :
                ~InsideNestedTag(ContentOf(pass.command.calls[k]), i)

C21_Examples ==
    /\ pass.ran
    /\ text = "{{cmd::{{x::y}}::z}}"
    /\ CallsOn(pass.command, text) # {}

(***************************************************************************)
(* C22                                                                     *)
(***************************************************************************)
RECURSIVE SplitAtOccurrences(_, _, _)
\* the pieces of s from offset `from` on, cut at the given offsets of `::` read from the
\* left, a `::` that overlaps the one before it cutting nothing
SplitAtOccurrences(s, occurrences, from) ==
    IF {i \in occurrences : i >= from} = {} THEN <<SubstringFrom(s, from)>>
    ELSE <<Substring(s, from, Least({i \in occurrences : i >= from}))>>
           \o SplitAtOccurrences(s, occurrences, Least({i \in occurrences : i >= from}) + 2)

\* the raw parameters of a remainder: its pieces between the top-level `::`, none when
\* the remainder is empty
RawParametersOf(remainder) ==
    IF remainder = "" THEN <<>>
    ELSE SplitAtOccurrences(remainder, TopLevelOccurrences(remainder, "::"), 0)

\* the decomposition of a value command, in the order `::`, `:`, bare name
DecomposedInOrder(content, parsed) ==
    IF FirstTopLevel(content, "::") # -1
    THEN /\ parsed.commandName = Substring(content, 0, FirstTopLevel(content, "::"))
         /\ ~parsed.isPrefixCommand
         /\ parsed.paramsArray
               = RawParametersOf(SubstringFrom(content, FirstTopLevel(content, "::") + 2))
    ELSE IF FirstTopLevel(content, ":") # -1
    THEN /\ parsed.commandName = Substring(content, 0, FirstTopLevel(content, ":"))
         /\ parsed.isPrefixCommand
         /\ parsed.paramsArray = <<SubstringFrom(content, FirstTopLevel(content, ":") + 1)>>
    ELSE /\ parsed.commandName = content
         /\ ~parsed.isPrefixCommand
         /\ parsed.paramsArray = <<>>

ValueCalls(command) ==
    {k \in ParsedCalls(command) : IsValueCommand(ContentOf(command.calls[k]))}

\* C22: lintRecursive decomposes a value command in this order: with a top-level `::`
\* the name is the text before the first one and the remainder is split on top-level
\* `::`; else with a top-level `:` the call is prefix-style with exactly one raw
\* parameter, the untouched remainder; else it is a bare name with no parameter.  A
\* top-level `:` followed later by a top-level `::` is decomposed by the `::`.
C22_DecompositionOrder ==
    pass.ran =>
        \A k \in ValueCalls(pass.command) :
            /\ ~pass.command.calls[k].parsed.isBlockTag
            /\ DecomposedInOrder(ContentOf(pass.command.calls[k]),
                                 pass.command.calls[k].parsed)

\* a linted text with a value command that has a top-level `:` before its first
\* top-level `::` and several raw parameters, one of them a nested tag with a `::`
C22_Witness ==
    /\ pass.ran
    /\ \E k \in ValueCalls(pass.command) :
          /\ FirstTopLevel(ContentOf(pass.command.calls[k]), ":")
                < FirstTopLevel(ContentOf(pass.command.calls[k]), "::")
          /\ ~pass.command.calls[k].parsed.isPrefixCommand
          /\ Len(pass.command.calls[k].parsed.paramsArray) >= 2
          /\ \E i \in 1..Len(pass.command.calls[k].parsed.paramsArray) :
                Includes(pass.command.calls[k].parsed.paramsArray[i], "{{min::1")

(***************************************************************************)
(* C23                                                                     *)
(***************************************************************************)
\* the calls lintRecursive makes for the parameters of call k
ChildrenOf(calls, k) ==
    {j \in (k + 1)..Len(calls) :
        calls[j].depth = calls[k].depth + 1 /\ ParentOf(calls, j) = k}

\* the tags of those calls, in the order of the calls
ChildTags(calls, k) ==
    [n \in 1..Cardinality(ChildrenOf(calls, k)) |-> calls[Nth(ChildrenOf(calls, k), n)].tag]

\* the raw parameters that are a complete tag when trimmed, trimmed, in their order
ParameterTags(paramsArray) ==
    [n \in 1..Cardinality(RecursedParams(paramsArray)) |->
        Trim(paramsArray[Nth(RecursedParams(paramsArray), n)])]

\* the tag has an 'Unknown command' or an 'Incorrect parameter count' Error
IsOffending(command, call) ==
    \/ HasErrorStarting(command.diagnostics, call.range, "Unknown command")
    \/ HasErrorStarting(command.diagnostics, call.range, "Incorrect parameter count")

\* the top-level tags of a text: its outermost pairs of {{ and }}, as offset and text
TopLevelTagsOf(doc) ==
    {[offset |-> Tokens(doc)[pr[1]].pos,
      tag |-> Substring(doc, Tokens(doc)[pr[1]].pos, Tokens(doc)[pr[2]].pos + 2)] :
        pr \in OutermostPairs(Tokens(doc))}

\* lintRecursive is called on every parameter tag of every decomposed tag and on every
\* top-level tag of the text, and each tag it is called on at depth
\* MAX_RECURSION_DEPTH or less is validated
AllTagsValidated(doc, command) ==
    /\ \A k \in ParsedCalls(command) :
          ChildTags(command.calls, k) = ParameterTags(command.calls[k].parsed.paramsArray)
    /\ {[offset |-> command.calls[k].offset, tag |-> command.calls[k].tag] :
            k \in {j \in 1..Len(command.calls) : command.calls[j].depth = 0}}
          = TopLevelTagsOf(doc)
    /\ Cardinality({j \in 1..Len(command.calls) : command.calls[j].depth = 0})
          = Cardinality(TopLevelTagsOf(doc))
    /\ \A k \in 1..Len(command.calls) :
          command.calls[k].depth <= MAX_RECURSION_DEPTH
            => UnknownErrorIffUnknown(command, command.calls[k])

\* C23: an 'Unknown command' or 'Incorrect parameter count' Error on one tag stops the
\* validation of no other tag: lintRecursive is still called on every parameter of the
\* offending tag that is a complete {{...}} tag, on the remaining parameters of the tag
\* around it and on every later top-level tag of the document.
C23_ErrorsStopNothing == pass.ran => AllTagsValidated(text, pass.command)

\* a linted text where a tag with a parameter-count Error has a parameter tag that
\* gets its own Error, the tag around it has a later parameter tag that gets its own,
\* and a later top-level tag gets its own
C23_Witness ==
    /\ pass.ran
    /\ \E o, p, s, t \in 1..Len(pass.command.calls) :
          /\ HasErrorStarting(pass.command.diagnostics, pass.command.calls[o].range,
                              "Incorrect parameter count")
          /\ p \in ChildrenOf(pass.command.calls, o)
          /\ IsOffending(pass.command, pass.command.calls[p])
          /\ pass.command.calls[o].depth >= 1
          /\ s > p
          /\ s \in ChildrenOf(pass.command.calls, ParentOf(pass.command.calls, o))
          /\ IsOffending(pass.command, pass.command.calls[s])
          /\ t > s
          /\ pass.command.calls[t].depth = 0
          /\ IsOffending(pass.command, pass.command.calls[t])

(***************************************************************************)
(* C24                                                                     *)
(***************************************************************************)
\* the index the loop the pass is in advances
LoopIndex(s) == IF s.loop \in {"inner while", "indexOf"} THEN s.inner ELSE s.index

\* the order in which updateDiagnostics runs the checkers and their loops
LoopRank(s) ==
    IF s.checker = "none" THEN 0
    ELSE IF s.checker = "checkBlockMismatch" THEN 1
    ELSE IF s.checker = "checkCommandUsage" THEN 2
    ELSE IF s.checker = "checkVariableUsage" THEN
        (IF s.loop = "varDefinitionRegex" THEN 3
         ELSE IF s.loop = "varReferenceGetRegex" THEN 4 ELSE 5)
    ELSE IF s.checker = "checkGeneralSyntax" THEN 6
    ELSE IF s.checker = "updateDiagnostics" THEN 7
    ELSE 8

\* a turn of a loop that stays in the loop advances its index, within the text
IndexAdvances(doc, s, t) ==
    (t.checker = s.checker /\ t.loop = s.loop /\ s.frames = <<>>) =>
        LoopIndex(t) > LoopIndex(s) /\ LoopIndex(t) <= Len(doc)

\* the inner loop of a loop starts after the index of the outer one, and the outer
\* loop goes on after it from a greater index
OuterIndexAdvances(s, t) ==
    /\ (s.loop = "while" /\ t.loop = "inner while") => t.inner > s.index
    /\ (s.loop = "inner while" /\ t.loop = "while") => t.index >= s.inner /\ t.index > s.index
    /\ (s.loop = "indexOf" /\ t.loop = "varReferenceDollarRegex") => t.index = s.index
    /\ (s.loop = "varReferenceDollarRegex" /\ t.loop = "indexOf") => t.index > s.index

\* a turn of lintRecursive returns, or goes on to the next parameter, and when it
\* recurses the new call is on a strictly shorter string, one level deeper
RecursionAdvances(doc, s, t) ==
    /\ Len(t.frames) <= Len(s.frames) + 1
    /\ Len(t.frames) <= MAX_RECURSION_DEPTH + 2
    /\ Len(t.frames) > Len(s.frames) =>
          /\ t.frames[Len(t.frames)].depth = Len(s.frames)
          /\ IF s.frames = <<>>
             THEN Len(t.frames[1].tag) <= Len(doc)
             ELSE /\ Len(t.frames[Len(t.frames)].tag) < Len(s.frames[Len(s.frames)].tag)
                  /\ t.frames[Len(s.frames)].i > s.frames[Len(s.frames)].i
    /\ (Len(t.frames) = Len(s.frames) /\ s.frames # <<>>) =>
          t.frames[Len(t.frames)].i > s.frames[Len(s.frames)].i
    /\ s.frames # <<>> => LoopIndex(t) = LoopIndex(s) /\ t.checker = s.checker

\* every turn of the pass advances
Advances ==
    /\ LoopRank(progress') >= LoopRank(progress)
    /\ IndexAdvances(text, progress, progress')
    /\ OuterIndexAdvances(progress, progress')
    /\ RecursionAdvances(text, progress, progress')

\* updateDiagnostics has returned, with the list of the pass set as the entry of a cbs
\* document
PassReturned ==
    /\ progress.checker = "done"
    /\ languageId = "cbs" =>
          /\ diagnosticCollection[Main].present
          /\ diagnosticCollection[Main].diagnostics = AllDiagnostics(pass)

\* C24: a lint pass terminates and returns a diagnostic list for every text, also one
\* with unbalanced braces, unterminated tags, stray }} or nesting deeper than
\* MAX_RECURSION_DEPTH: every turn of every scanning loop of the four checkers
\* strictly advances the index of the loop, lintRecursive recurses only on a strictly
\* shorter string, one level deeper, the four checkers return in the end, and what
\* updateDiagnostics then sets is the list of their diagnostics.
C24_PassTerminates ==
    /\ <>CheckersReturned
    /\ [][Advances]_vars
    /\ [](progress.checker = "done" => PassReturned)

\* the pass has returned for a text that is nested deeper than MAX_RECURSION_DEPTH and
\* has a stray }} and an unterminated {{
C24_Witness ==
    /\ PassReturned
    /\ pass.ran
    /\ \E k \in 1..Len(pass.command.calls) : pass.command.calls[k].outcome = "excessive"
    /\ StrayClosers(Tokens(text)) # {}
    /\ LeftOpen(Tokens(text)) # {}

(***************************************************************************)
(* C25                                                                     *)
(***************************************************************************)
\* a change of another document leaves the pending timer of a document pending
ChangeOfAnotherKeepsTimer ==
    \A uri \in Uris :
        (HasPendingTimer(uri) /\ documents'[uri] = documents[uri] /\ documents' # documents)
            => HasPendingTimer(uri)'

\* C25: every change of a cbs document is eventually followed by a lint pass over that
\* document, also when other cbs documents are edited in the meantime: an edit of
\* document B never cancels the pending re-lint of a different document A.
C25_EditOfAnotherCancelsNothing == [][ChangeOfAnotherKeepsTimer]_vars

(***************************************************************************)
(* C26                                                                     *)
(***************************************************************************)
\* C26: once the close event of a document has been handled, the diagnostics
\* collection holds no entry for the document until a later open, save or change
\* event for it: as long as the document is closed, it has no entry, whatever timer
\* was pending when it was closed.
C26_ClosedDocumentHasNoEntry ==
    \A uri \in Uris : documents[uri].isClosed => ~diagnosticCollection[uri].present

\* the close handler itself leaves no entry for the document
CloseDeletesEntry ==
    \A uri \in Uris :
        (~documents[uri].isClosed /\ documents'[uri].isClosed)
            => ~diagnosticCollection'[uri].present

C26_CloseDeletesEntry == [][CloseDeletesEntry]_vars

(***************************************************************************)
(* C27                                                                     *)
(***************************************************************************)
\* the range and the line recorded for each opener and closer are those of the tag
RecordedWhereTagIs(doc, block) ==
    \A k \in 1..Len(block.events) :
        /\ block.events[k].range
              = OffsetRange(doc, block.events[k].offset, block.events[k].end)
        /\ block.events[k].line = PositionAt(doc, block.events[k].offset).line

\* each 'Unclosed block tag' Error names the line where its opener stands
UnclosedNamesOpenerLine(doc, block) ==
    \A d \in WithMessagePrefix(block.diagnostics, "Unclosed block tag") :
        \E k \in EventsOfKind(block.events, "push") :
            /\ block.diagnostics[d].range
                  = OffsetRange(doc, block.events[k].offset, block.events[k].end)
            /\ block.diagnostics[d].message
                  = UnclosedBlockMessage(block.events[k].frame.name,
                                         PositionAt(doc, block.events[k].offset).line)

\* C27: the line and the range checkBlockMismatch records for a block opener or
\* closer are the tag's real line and column in the document, for every tag, those
\* after a tag that spans several lines included; the line in an 'Unclosed block
\* tag ... on line N' message is the opener's actual line.
C27_RecordedWhereTagIs ==
    pass.ran => /\ RecordedWhereTagIs(text, pass.block)
                /\ UnclosedNamesOpenerLine(text, pass.block)

\* no tag of the text spans lines
TagsOnOneLine(doc) ==
    \A pr \in OutermostPairs(Tokens(doc)) :
        CountFrom(doc, "\n", Tokens(doc)[pr[1]].pos, Tokens(doc)[pr[2]].pos) = 0

\* in a text where no tag spans lines, every opener and closer is recorded where it is
C27_RightWhenTagsOnOneLine ==
    (pass.ran /\ Balanced(Tokens(text)) /\ TagsOnOneLine(text)) =>
        /\ RecordedWhereTagIs(text, pass.block)
        /\ UnclosedNamesOpenerLine(text, pass.block)

(***************************************************************************)
(* C28                                                                     *)
(***************************************************************************)
\* the {{ at token a has its matching }} at token b, the nested pairs between counted
MatchingCloser(tokens, a, b) ==
    /\ a < b
    /\ tokens[a].open
    /\ SignedDepth(tokens, b) = SignedDepth(tokens, a - 1)
    /\ \A m \in a..(b - 1) : SignedDepth(tokens, m) > SignedDepth(tokens, a - 1)

\* the text from offset to end is a tag that its matching }} terminates
TerminatedTag(doc, offset, end) ==
    \E a, b \in 1..Len(Tokens(doc)) :
        /\ Tokens(doc)[a].pos = offset
        /\ Tokens(doc)[b].pos + 2 = end
        /\ MatchingCloser(Tokens(doc), a, b)

\* every push and pop is for a terminated tag
OnlyTerminatedTagsClassified(doc, block) ==
    \A k \in 1..Len(block.events) :
        TerminatedTag(doc, block.events[k].offset, block.events[k].end)

\* the complete closing tags of the text that stand inside no other complete tag
CompleteClosers(doc) ==
    {pr \in MatchedPairs(Tokens(doc)) :
        /\ StartsWith(Trim(Substring(doc, Tokens(doc)[pr[1]].pos + 2, Tokens(doc)[pr[2]].pos)),
                      "/")
        /\ ~\E qr \in MatchedPairs(Tokens(doc)) : qr[1] < pr[1] /\ pr[2] < qr[2]}

\* the {{ of the text that no }} terminates
UnterminatedOpens(doc) == {Tokens(doc)[k].pos : k \in LeftOpen(Tokens(doc))}

\* every complete closing tag reaches the matcher, also after an unterminated {{
NoCloserHidden(doc, block) ==
    \A pr \in CompleteClosers(doc) :
        \E k \in EventsOfKind(block.events, "pop") \cup EventsOfKind(block.events, "popEmpty") :
            block.events[k].offset = Tokens(doc)[pr[1]].pos

\* C28: checkBlockMismatch pushes or pops a block frame only for a tag terminated by
\* its matching }}: an unterminated {{ is never classified as a block opener or
\* closer, and it does not hide the block closers that follow it from the matcher.
C28_UnterminatedTagsAreInert ==
    pass.ran => /\ OnlyTerminatedTagsClassified(text, pass.block)
                /\ NoCloserHidden(text, pass.block)

\* in a text where every {{ has its }}, only terminated tags are classified and every
\* complete closing tag reaches the matcher
C28_InertWhenBalanced ==
    (pass.ran /\ Balanced(Tokens(text))) =>
        /\ OnlyTerminatedTagsClassified(text, pass.block)
        /\ NoCloserHidden(text, pass.block)

(***************************************************************************)
(* C29                                                                     *)
(***************************************************************************)
\* formattedText.split('\n').length
FormattedLineTotal == Len(SplitLines(formatting.formattedText, 0))

\* findMapEntryForFormattedLine, all the entries the test of `find` accepts
MapEntriesForFormattedLine(sourceMap, formattedLine) ==
    {k \in 1..Len(sourceMap) :
        /\ formattedLine >= sourceMap[k].formattedStartLine
        /\ formattedLine <= sourceMap[k].formattedEndLine}

\* the entries follow the original lines and tile the lines 0..total-1
PartitionsFormattedLines(sourceMap, originalLines, total) ==
    /\ Len(sourceMap) = originalLines
    /\ \A k \in 1..Len(sourceMap) :
          /\ sourceMap[k].originalLine = k - 1
          /\ sourceMap[k].formattedStartLine <= sourceMap[k].formattedEndLine
          /\ sourceMap[k].formattedStartLine
                = IF k = 1 THEN 0 ELSE sourceMap[k - 1].formattedEndLine + 1
    /\ sourceMap[Len(sourceMap)].formattedEndLine = total - 1
    /\ \A formattedLine \in 0..(total - 1) :
          Cardinality(MapEntriesForFormattedLine(sourceMap, formattedLine)) = 1

\* C29: the source map built by formatDocumentWithMapping partitions the formatted
\* output: one entry per original line in increasing order, the first starts at
\* formatted line 0, each starts at the line after the previous entry's
\* formattedEndLine, and the last ends at the last line of formattedText; hence every
\* formatted line maps to exactly one original line.
C29_SourceMapPartitions ==
    formatting.ran =>
        PartitionsFormattedLines(formatting.sourceMap, Len(TextLines(text)),
                                 FormattedLineTotal)

\* a document of several lines has been formatted, one of its lines has become several
\* lines of the output and a later one has stayed one line
C29_Witness ==
    /\ formatting.ran
    /\ \E k, m \in 1..Len(formatting.sourceMap) :
          /\ k < m
          /\ formatting.sourceMap[k].formattedEndLine
                > formatting.sourceMap[k].formattedStartLine
          /\ formatting.sourceMap[m].formattedEndLine
                = formatting.sourceMap[m].formattedStartLine
          /\ formatting.sourceMap[m].formattedStartLine > m - 1

(***************************************************************************)
(* C30                                                                     *)
(***************************************************************************)
\* the preview uris originalToPreviewMap has for an original
PreviewsOf(uri) ==
    IF originalToPreviewMap[uri] = NoSet THEN {} ELSE previewSets[originalToPreviewMap[uri]]

\* a preview uri is in the Set of an original exactly when it has a context with that
\* original, and no original has an empty Set
PreviewMapsAgree ==
    /\ \A uri \in Uris : \A previewUri \in PreviewUris :
          previewUri \in PreviewsOf(uri)
              <=> /\ previewContextMap[previewUri].present
                  /\ previewContextMap[previewUri].originalUri = uri
    /\ \A uri \in Uris : originalToPreviewMap[uri] # NoSet => PreviewsOf(uri) # {}

\* a context that stays keeps its original, and only the command makes a context: a
\* preview uri made earlier that has none, a closed one, gets none
ContextsKeptOrMadeByCommand ==
    \A previewUri \in PreviewUris :
        /\ (previewContextMap[previewUri].present /\ previewContextMap'[previewUri].present)
              => previewContextMap'[previewUri].originalUri
                    = previewContextMap[previewUri].originalUri
        /\ (~previewContextMap[previewUri].present /\ previewContextMap'[previewUri].present)
              => previewUri > previewsShown /\ previewsShown' = previewUri

\* C30: after any sequence of show-preview, original-document-change (debounced
\* update), preview-close and deactivate events the two preview maps agree: a preview
\* uri is in originalToPreviewMap[O] exactly when previewContextMap holds a context
\* for it whose originalUri is O, no original maps to an empty set, a debounced update
\* never changes a context's originalUri, and the context of a closed preview is never
\* made again by an update that was pending when it closed.
C30_PreviewMapsAgree == []PreviewMapsAgree /\ [][ContextsKeptOrMadeByCommand]_vars

\* an update is pending whose Set has lost every preview it had when the timer was
\* set, each closed since, and another preview, shown later, has its context
C30_Witness ==
    /\ updatePreviewDebounceTimer.pending
    /\ previewSets[updatePreviewDebounceTimer.correspondingPreviewUris] = {}
    /\ \E previewUri \in PreviewUris :
          /\ previewContextMap[previewUri].present
          /\ previewContextMap[previewUri].originalUri
                = updatePreviewDebounceTimer.originalUriString
    /\ \E uri \in Uris : Cardinality(PreviewsOf(uri)) = 2

====
